---- MODULE Spec2Model ----
(***************************************************************************)
(* Verification model of the ck-otel-collector core:                       *)
(*   - the metrics aggregator processor (processor.go): group key builder, *)
(*     rule matching, per-group aggregation, output synthesis, removal of  *)
(*     originals, the rule loop of processMetrics;                         *)
(*   - the Prometheus exporter's last-value accumulator with TTL and the   *)
(*     cleanup operations that prometheus.go delegates to.                 *)
(*                                                                         *)
(* Strings are sequences of one-character strings, so that concatenation,  *)
(* joining and splitting are computed rather than assumed.  Floating point *)
(* values are exact rationals <<numerator, denominator>> in lowest terms.  *)
(***************************************************************************)
EXTENDS Integers, Sequences, FiniteSets, TLC

VARIABLES
    kIn,      \* group-key check: the arguments of buildGroupKeyFromPresentAttributes
    kOut,     \* group-key check: the returned key, or NoKey before the call
    cfg,      \* processor: *Config (GroupByLabels, OutputResourceAttributes, AggregationRules)
    md,       \* processor: the pmetric.Metrics batch, mutated in place
    ruleIdx,  \* processor: index of the rule the loop of processMetrics is at
    pc,       \* processor: "idle" | "loop" | "returned"
    ret,      \* processor: the (batch, error) pair returned by processMetrics
    now,      \* wall clock read by time.Now()
    pre,      \* history: the batch as it was before the rule applied last
    input,    \* history: the batch as handed to processMetrics
    applied,  \* history: indexes of the rules processAggregationRule was called for
    acc,      \* accumulator: registeredMetrics, identity -> accumulatedValue
    ttl,      \* accumulator: metricExpiration
    lastOp,   \* accumulator: the last call and what it returned
    san,      \* sanitization: a name, its sanitized form, that form sanitized again
    vres,     \* validation check: what Config.Validate returned
    calls,    \* accumulator: the calls that run concurrently, each with its position
    resp      \* cleanup API: the last request and the response written

vars == <<kIn, kOut, cfg, md, ruleIdx, pc, ret, now, pre, input, applied, acc, ttl, lastOp,
          san, vres, calls, resp>>

procVars == <<cfg, md, ruleIdx, pc, ret, pre, input, applied>>
keyVars  == <<kIn, kOut>>
accVars  == <<acc, ttl, lastOp>>
auxVars  == <<san, vres, calls, resp>>

(***************************************************************************)
(* Strings                                                                 *)
(***************************************************************************)
EmptyStr == <<>>

RECURSIVE Join(_, _)
\* strings.Join(parts, sep)
Join(parts, sep) ==
    IF Len(parts) = 0 THEN EmptyStr
    ELSE IF Len(parts) = 1 THEN parts[1]
    ELSE parts[1] \o sep \o Join(Tail(parts), sep)

\* index of the first occurrence of character c in s, 0 when there is none
IndexOf(s, c) ==
    IF \E i \in 1..Len(s) : s[i] = c
    THEN CHOOSE i \in 1..Len(s) : s[i] = c /\ \A j \in 1..(i-1) : s[j] # c
    ELSE 0

RECURSIVE SplitAll(_, _)
\* regexp.MustCompile(c).Split(s, -1) for a one-character literal c
SplitAll(s, c) ==
    LET i == IndexOf(s, c) IN
    IF i = 0 THEN <<s>>
    ELSE <<SubSeq(s, 1, i-1)>> \o SplitAll(SubSeq(s, i+1, Len(s)), c)

\* regexp.MustCompile(c).Split(s, 2) for a one-character literal c
SplitTwo(s, c) ==
    LET i == IndexOf(s, c) IN
    IF i = 0 THEN <<s>>
    ELSE <<SubSeq(s, 1, i-1), SubSeq(s, i+1, Len(s))>>

\* strings.Contains(s, sub)
Contains(s, sub) ==
    \E i \in 0..(Len(s) - Len(sub)) : SubSeq(s, i+1, i+Len(sub)) = sub

(***************************************************************************)
(* float64 values as exact rationals                                       *)
(***************************************************************************)
Abs(n) == IF n < 0 THEN -n ELSE n

RECURSIVE Gcd(_, _)
Gcd(a, b) == IF b = 0 THEN a ELSE Gcd(b, a % b)

\* the float64 n/d, d > 0
Rat(n, d) ==
    LET g == Gcd(Abs(n), d) IN
    IF n = 0 THEN <<0, 1>> ELSE <<n \div g, d \div g>>

\* float64(i)
FloatOfInt(i) == Rat(i, 1)

RAdd(x, y) == Rat(x[1] * y[2] + y[1] * x[2], x[2] * y[2])
RLess(x, y) == x[1] * y[2] < y[1] * x[2]
RDivInt(x, n) == Rat(x[1], x[2] * n)
RZero == <<0, 1>>

(***************************************************************************)
(* pcommon.Map with string values: a function from the present keys        *)
(***************************************************************************)
EmptyMap == <<>>

Has(m, k) == k \in DOMAIN m

\* Map.PutStr(k, v)
PutStr(m, k, v) == [x \in (DOMAIN m) \cup {k} |-> IF x = k THEN v ELSE m[x]]

\* every PutStr of the entries of src, applied to m
PutAll(m, src) == [x \in (DOMAIN m) \cup (DOMAIN src) |-> IF x \in DOMAIN src THEN src[x] ELSE m[x]]

(***************************************************************************)
(* Group key builder                                                       *)
(***************************************************************************)
All == <<"a", "l", "l">>
Eq  == <<"=">>
Bar == <<"|">>

RECURSIVE KeyParts(_, _, _)
\* the loop of buildGroupKeyFromPresentAttributes: keyParts after the labels
KeyParts(resourceAttrs, dataPointAttrs, groupByLabels) ==
    IF Len(groupByLabels) = 0 THEN <<>>
    ELSE
        LET label == Head(groupByLabels)
            rest  == KeyParts(resourceAttrs, dataPointAttrs, Tail(groupByLabels))
        IN  IF Has(dataPointAttrs, label)
              THEN <<label \o Eq \o dataPointAttrs[label]>> \o rest
            ELSE IF Has(resourceAttrs, label)
              THEN <<label \o Eq \o resourceAttrs[label]>> \o rest
            ELSE rest

RECURSIVE KeyPartsResourceFirst(_, _, _)
KeyPartsResourceFirst(resourceAttrs, dataPointAttrs, groupByLabels) ==
    IF Len(groupByLabels) = 0 THEN <<>>
    ELSE
        LET label == Head(groupByLabels)
            rest  == KeyPartsResourceFirst(resourceAttrs, dataPointAttrs, Tail(groupByLabels))
        IN  IF Has(resourceAttrs, label)
              THEN <<label \o Eq \o resourceAttrs[label]>> \o rest
            ELSE IF Has(dataPointAttrs, label)
              THEN <<label \o Eq \o dataPointAttrs[label]>> \o rest
            ELSE rest

\* a build that looks the label up in the resource before the data point
buildGroupKeyResourceFirst(resourceAttrs, dataPointAttrs, groupByLabels) ==
    IF Len(groupByLabels) = 0 THEN All
    ELSE LET keyParts == KeyPartsResourceFirst(resourceAttrs, dataPointAttrs, groupByLabels)
         IN  IF Len(keyParts) = 0 THEN All ELSE Join(keyParts, Bar)

\* a build that writes a label found in neither map with an empty value
buildGroupKeyAbsentAsEmpty(resourceAttrs, dataPointAttrs, groupByLabels) ==
    IF Len(groupByLabels) = 0 THEN All
    ELSE Join([i \in 1..Len(groupByLabels) |->
                  groupByLabels[i] \o Eq \o
                  (IF Has(dataPointAttrs, groupByLabels[i]) THEN dataPointAttrs[groupByLabels[i]]
                   ELSE IF Has(resourceAttrs, groupByLabels[i]) THEN resourceAttrs[groupByLabels[i]]
                   ELSE <<>>)], Bar)

buildGroupKeyFromPresentAttributes(resourceAttrs, dataPointAttrs, groupByLabels) ==
    IF Len(groupByLabels) = 0 THEN All
    ELSE LET keyParts == KeyParts(resourceAttrs, dataPointAttrs, groupByLabels)
         IN  IF Len(keyParts) = 0 THEN All ELSE Join(keyParts, Bar)

(***************************************************************************)
(* Regular expressions (package regexp), for the dialect the model uses:   *)
(* literal characters, `.`, a postfix `*`, a leading `^`, a trailing `$`,  *)
(* and `[`, which opens a character class and is never closed here.        *)
(***************************************************************************)
\* regexp.Compile(p) returns no error
RegexCompiles(p) ==
    /\ \A i \in 1..Len(p) : p[i] # "["
    /\ (Len(p) > 0 => p[1] # "*")
    /\ \A i \in 1..(Len(p) - 1) : ~(p[i] = "*" /\ p[i+1] = "*")
    /\ \A i \in 1..(Len(p) - 1) : ~(p[i] = "^" /\ p[i+1] = "*")

RECURSIVE MatchHere(_, _)
\* p matches a prefix of s
MatchHere(p, s) ==
    IF Len(p) = 0 THEN TRUE
    ELSE IF Len(p) >= 2 /\ p[2] = "*"
      THEN \E k \in 0..Len(s) :
              /\ \A j \in 1..k : (p[1] = "." \/ p[1] = s[j])
              /\ MatchHere(SubSeq(p, 3, Len(p)), SubSeq(s, k+1, Len(s)))
    ELSE IF p = <<"$">> THEN Len(s) = 0
    ELSE IF Len(s) > 0 /\ (p[1] = "." \/ p[1] = s[1])
      THEN MatchHere(Tail(p), Tail(s))
    ELSE FALSE

\* regexp.MatchString(p, s) for a pattern that compiles: p matches somewhere in s
RegexMatch(p, s) ==
    IF Len(p) > 0 /\ p[1] = "^" THEN MatchHere(Tail(p), s)
    ELSE \E i \in 0..Len(s) : MatchHere(p, SubSeq(s, i+1, Len(s)))

(***************************************************************************)
(* Metric data model (pmetric)                                             *)
(*   data point : [vt, dbl, int, sum, count, ts, start, attrs]             *)
(*                vt is "double" | "int" | "empty" for number data points  *)
(*                and "hist" for histogram data points                     *)
(*   metric     : [name, type, dps], type "gauge" | "sum" | "histogram" |  *)
(*                "summary" | "empty"                                      *)
(*   scope      : [name, metrics]                                          *)
(*   resource   : [attrs, scopes]                                          *)
(*   batch      : sequence of resources                                    *)
(***************************************************************************)
NumberPoint(vt, dbl, int, ts, start, attrs) ==
    [vt |-> vt, dbl |-> dbl, int |-> int, sum |-> RZero, count |-> 0,
     ts |-> ts, start |-> start, attrs |-> attrs]

HistPoint(sum, count, ts, start, attrs) ==
    [vt |-> "hist", dbl |-> RZero, int |-> 0, sum |-> sum, count |-> count,
     ts |-> ts, start |-> start, attrs |-> attrs]

Metric(name, type, dps) == [name |-> name, type |-> type, dps |-> dps]
Scope(name, metrics) == [name |-> name, metrics |-> metrics]
Resource(attrs, scopes) == [attrs |-> attrs, scopes |-> scopes]

RECURSIVE Flatten(_)
\* concatenation of a sequence of sequences
Flatten(ss) == IF Len(ss) = 0 THEN <<>> ELSE Head(ss) \o Flatten(Tail(ss))

(***************************************************************************)
(* Rule matching                                                           *)
(***************************************************************************)
\* The enumerated configuration strings (match type, aggregation type, output
\* type) are only ever compared, so they are kept as plain strings.
\* a match that treats every match type it does not know as strict
matchesPatternDefaultStrict(metricName, rule) ==
    IF rule.MatchType = "regex"
      THEN IF RegexCompiles(rule.MetricPattern)
             THEN RegexMatch(rule.MetricPattern, metricName)
             ELSE FALSE
      ELSE metricName = rule.MetricPattern

matchesPattern(metricName, rule) ==
    IF rule.MatchType \in {"strict", ""}
      THEN metricName = rule.MetricPattern
    ELSE IF rule.MatchType = "regex"
      THEN IF RegexCompiles(rule.MetricPattern)
             THEN RegexMatch(rule.MetricPattern, metricName)
             ELSE FALSE
    ELSE FALSE

\* collectMatchingMetrics: the matching metrics in scan order, each with the
\* attributes of its resource
collectMatchingMetrics(batch, rule) ==
    Flatten([i \in 1..Len(batch) |->
        Flatten([j \in 1..Len(batch[i].scopes) |->
            LET ms == batch[i].scopes[j].metrics IN
            [k \in 1..Len(SelectSeq(ms, LAMBDA m : matchesPattern(m.name, rule))) |->
                [Metric |-> SelectSeq(ms, LAMBDA m : matchesPattern(m.name, rule))[k],
                 ResourceAttrs |-> batch[i].attrs]]])])

(***************************************************************************)
(* Grouping at data point granularity                                      *)
(***************************************************************************)
\* the clone groupDataPointsByLabels makes for data point dp of metric: the
\* metric emptied to its own type, holding the copy of that one data point
SinglePointMetric(metric, dp) == Metric(metric.name, metric.type, <<dp>>)

\* a grouping whose per data point record carries the whole metric instead of
\* a copy of the single data point
groupDataPointsByLabelsWholeMetric(metric, resourceAttrs, groupByLabels) ==
    IF metric.type \in {"gauge", "sum", "histogram"}
      THEN [i \in 1..Len(metric.dps) |->
              [key |-> buildGroupKeyFromPresentAttributes(resourceAttrs, metric.dps[i].attrs, groupByLabels),
               member |-> [Metric |-> metric, ResourceAttrs |-> resourceAttrs]]]
      ELSE <<>>

\* groupDataPointsByLabels for one matching metric: the (group key, member)
\* pairs it appends, in data point order; nothing for the other metric types
groupDataPointsByLabels(metric, resourceAttrs, groupByLabels) ==
    IF metric.type \in {"gauge", "sum", "histogram"}
      THEN [i \in 1..Len(metric.dps) |->
              [key |-> buildGroupKeyFromPresentAttributes(resourceAttrs, metric.dps[i].attrs, groupByLabels),
               member |-> [Metric |-> SinglePointMetric(metric, metric.dps[i]),
                           ResourceAttrs |-> resourceAttrs]]]
      ELSE <<>>

\* every (group key, member) pair of the matching metrics, in scan order
GroupEntries(metrics, groupByLabels) ==
    Flatten([n \in 1..Len(metrics) |->
        groupDataPointsByLabels(metrics[n].Metric, metrics[n].ResourceAttrs, groupByLabels)])

\* a grouping that files every data point of a metric under the key of the
\* metric's first data point
groupMetricsByFirstPoint(metrics, groupByLabels) ==
    LET perMetric == [n \in 1..Len(metrics) |->
            LET e == groupDataPointsByLabels(metrics[n].Metric, metrics[n].ResourceAttrs, groupByLabels)
            IN  [i \in 1..Len(e) |-> [key |-> e[1].key, member |-> e[i].member]]]
        entries == Flatten(perMetric)
        keys == {entries[i].key : i \in 1..Len(entries)}
    IN  [k \in keys |->
            LET mine == SelectSeq(entries, LAMBDA e : e.key = k)
            IN  [i \in 1..Len(mine) |-> mine[i].member]]

\* groupMetricsByLabels: the map from group key to the members of the group,
\* members in scan order
groupMetricsByLabels(metrics, groupByLabels) ==
    LET entries == GroupEntries(metrics, groupByLabels)
        keys == {entries[i].key : i \in 1..Len(entries)}
    IN  [k \in keys |->
            LET mine == SelectSeq(entries, LAMBDA e : e.key = k)
            IN  [i \in 1..Len(mine) |-> mine[i].member]]

(***************************************************************************)
(* Value extraction and aggregation                                        *)
(***************************************************************************)
\* the value a data point contributes, as a sequence of zero or one values
PointValues(type, dp) ==
    IF type \in {"gauge", "sum"}
      THEN IF dp.vt = "double" THEN <<dp.dbl>>
           ELSE IF dp.vt = "int" THEN <<FloatOfInt(dp.int)>>
           ELSE <<>>
    ELSE IF type = "histogram" THEN <<dp.sum>>
    ELSE <<>>

extractValuesFromMetric(metric) ==
    Flatten([i \in 1..Len(metric.dps) |-> PointValues(metric.type, metric.dps[i])])

RECURSIVE SumOf(_)
SumOf(values) == IF Len(values) = 0 THEN RZero ELSE RAdd(Head(values), SumOf(Tail(values)))

RECURSIVE MinOf(_, _)
\* the loop `if v < min { min = v }` over values, starting from min
MinOf(min, values) ==
    IF Len(values) = 0 THEN min
    ELSE MinOf(IF RLess(Head(values), min) THEN Head(values) ELSE min, Tail(values))

RECURSIVE MaxOf(_, _)
\* the loop `if v > max { max = v }` over values, starting from max
MaxOf(max, values) ==
    IF Len(values) = 0 THEN max
    ELSE MaxOf(IF RLess(max, Head(values)) THEN Head(values) ELSE max, Tail(values))

\* the values of all members of a group, in member order
GroupValues(metrics) ==
    Flatten([n \in 1..Len(metrics) |-> extractValuesFromMetric(metrics[n].Metric)])

\* an aggregation whose extrema start from zero instead of the first value
calculateAggregatedValueZeroStart(metrics, aggregationType) ==
    LET values == GroupValues(metrics) IN
    IF Len(values) = 0 THEN RZero
    ELSE IF aggregationType \in {"sum", ""} THEN SumOf(values)
    ELSE IF aggregationType = "mean" THEN RDivInt(SumOf(values), Len(values))
    ELSE IF aggregationType = "min" THEN MinOf(RZero, values)
    ELSE IF aggregationType = "max" THEN MaxOf(RZero, values)
    ELSE IF aggregationType = "count" THEN FloatOfInt(Len(values))
    ELSE RZero

\* an aggregation that treats an unrecognized type as a sum
calculateAggregatedValueUnknownAsSum(metrics, aggregationType) ==
    LET values == GroupValues(metrics) IN
    IF Len(values) = 0 THEN RZero
    ELSE IF aggregationType = "mean" THEN RDivInt(SumOf(values), Len(values))
    ELSE IF aggregationType = "min" THEN MinOf(values[1], Tail(values))
    ELSE IF aggregationType = "max" THEN MaxOf(values[1], Tail(values))
    ELSE IF aggregationType = "count" THEN FloatOfInt(Len(values))
    ELSE SumOf(values)

calculateAggregatedValue(metrics, aggregationType) ==
    LET values == GroupValues(metrics) IN
    IF Len(values) = 0 THEN RZero
    ELSE IF aggregationType \in {"sum", ""} THEN SumOf(values)
    ELSE IF aggregationType = "mean" THEN RDivInt(SumOf(values), Len(values))
    ELSE IF aggregationType = "min" THEN MinOf(values[1], Tail(values))
    ELSE IF aggregationType = "max" THEN MaxOf(values[1], Tail(values))
    ELSE IF aggregationType = "count" THEN FloatOfInt(Len(values))
    ELSE RZero

(***************************************************************************)
(* Timestamps                                                              *)
(***************************************************************************)
\* time.Minute, in the clock's unit
Minute == 2

\* the data point timestamps of a group, in member order
GroupTimestamps(metrics) ==
    Flatten([n \in 1..Len(metrics) |->
        IF metrics[n].Metric.type \in {"gauge", "sum", "histogram"}
          THEN [i \in 1..Len(metrics[n].Metric.dps) |-> metrics[n].Metric.dps[i].ts]
          ELSE <<>>])

\* what getEarliestTimestamp reads of each data point: the timestamp of a
\* gauge point, the start timestamp of a sum or histogram point
GroupStartTimestamps(metrics) ==
    Flatten([n \in 1..Len(metrics) |->
        LET m == metrics[n].Metric IN
        IF m.type = "gauge" THEN [i \in 1..Len(m.dps) |-> m.dps[i].ts]
        ELSE IF m.type \in {"sum", "histogram"} THEN [i \in 1..Len(m.dps) |-> m.dps[i].start]
        ELSE <<>>])

getLatestTimestamp(metrics, clock) ==
    LET tss == GroupTimestamps(metrics)
        positive == {tss[i] : i \in 1..Len(tss)} \ {0}
    IN  IF positive = {} THEN clock
        ELSE CHOOSE t \in positive : \A u \in positive : u <= t

\* an earliest timestamp that reads the timestamp of every source point
getEarliestTimestampOfPoints(metrics, clock) ==
    LET tss == GroupTimestamps(metrics)
        positive == {tss[i] : i \in 1..Len(tss)} \ {0}
    IN  IF positive = {} THEN clock - Minute
        ELSE CHOOSE t \in positive : \A u \in positive : t <= u

getEarliestTimestamp(metrics, clock) ==
    LET tss == GroupStartTimestamps(metrics)
        positive == {tss[i] : i \in 1..Len(tss)} \ {0}
    IN  IF positive = {} THEN clock - Minute
        ELSE CHOOSE t \in positive : \A u \in positive : t <= u

(***************************************************************************)
(* Metric name sanitization                                                *)
(***************************************************************************)
Letters == {"a","b","c","d","e","f","g","h","i","j","k","l","m","n","o","p","q","r",
            "s","t","u","v","w","x","y","z",
            "A","B","C","D","E","F","G","H","I","J","K","L","M","N","O","P","Q","R",
            "S","T","U","V","W","X","Y","Z"}
Digits == {"0","1","2","3","4","5","6","7","8","9"}

\* [a-zA-Z0-9_:]
NameChar(c) == c \in Letters \cup Digits \cup {"_", ":"}
\* [a-zA-Z_:]
NameStartChar(c) == c \in Letters \cup {"_", ":"}

\* a sanitization that replaces the characters and leaves the first one alone
sanitizeMetricNameNoPrefix(name) ==
    [i \in 1..Len(name) |-> IF NameChar(name[i]) THEN name[i] ELSE "_"]

sanitizeMetricName(name) ==
    LET sanitized == [i \in 1..Len(name) |-> IF NameChar(name[i]) THEN name[i] ELSE "_"]
    IN  IF Len(sanitized) > 0 /\ ~NameStartChar(sanitized[1])
          THEN <<"_">> \o sanitized
          ELSE sanitized

(***************************************************************************)
(* Labels of a group, parsed back from its key                             *)
(***************************************************************************)
\* the (name, value) pairs parsed from the group key: split on `|`, then each
\* part on its first `=`; a part without `=` gives no pair
ParsedLabels(groupKey) ==
    LET parts == SplitAll(groupKey, "|")
        kvs == [i \in 1..Len(parts) |-> SplitTwo(parts[i], "=")]
    IN  SelectSeq(kvs, LAMBDA kv : Len(kv) = 2)

RECURSIVE PutPairs(_, _)
\* PutStr of each pair in order (a later pair of the same name overwrites)
PutPairs(m, pairs) ==
    IF Len(pairs) = 0 THEN m
    ELSE PutPairs(PutStr(m, Head(pairs)[1], Head(pairs)[2]), Tail(pairs))

\* a promotion decided by the resource attributes of the last member
extractResourceAttrsFromLastMember(groupKey, groupByLabels, metrics) ==
    IF groupKey = All \/ Len(groupByLabels) = 0 \/ Len(metrics) = 0 THEN EmptyMap
    ELSE PutPairs(EmptyMap, SelectSeq(ParsedLabels(groupKey),
                                      LAMBDA kv : Has(metrics[Len(metrics)].ResourceAttrs, kv[1])))

extractResourceAttrsFromGroup(groupKey, groupByLabels, metrics) ==
    IF groupKey = All \/ Len(groupByLabels) = 0 \/ Len(metrics) = 0 THEN EmptyMap
    ELSE PutPairs(EmptyMap, SelectSeq(ParsedLabels(groupKey),
                                      LAMBDA kv : Has(metrics[1].ResourceAttrs, kv[1])))

\* the attributes setDataPointLabelsFromGroupKey leaves on a fresh data point
setDataPointLabelsFromGroupKey(groupKey, groupByLabels, metrics) ==
    IF groupKey = All \/ Len(groupByLabels) = 0 \/ Len(metrics) = 0 THEN EmptyMap
    ELSE PutPairs(EmptyMap, SelectSeq(ParsedLabels(groupKey),
                                      LAMBDA kv : ~Has(metrics[1].ResourceAttrs, kv[1])))

(***************************************************************************)
(* Output synthesis                                                        *)
(***************************************************************************)
\* the set of orders in which a Go `range` may visit the keys of a map
Orders(keys) ==
    {o \in [1..Cardinality(keys) -> keys] : \A i, j \in 1..Cardinality(keys) : o[i] = o[j] => i = j}

\* a result whose histogram count is the total of the source histograms' counts
ResultMetricSourceCounts(groupKey, groupMetrics, rule, groupByLabels, clock) ==
    LET outputType == IF rule.OutputMetricType = "" THEN "gauge" ELSE rule.OutputMetricType
        aggregatedValue == calculateAggregatedValue(groupMetrics, rule.AggregationType)
        timestamp == getLatestTimestamp(groupMetrics, clock)
        labels == setDataPointLabelsFromGroupKey(groupKey, groupByLabels, groupMetrics)
        name == sanitizeMetricName(rule.OutputMetricName)
        counts == [n \in 1..Len(groupMetrics) |-> <<groupMetrics[n].Metric.dps[1].count, 1>>]
    IN  IF outputType = "gauge"
          THEN Metric(name, "gauge", <<NumberPoint("double", aggregatedValue, 0, timestamp, 0, labels)>>)
        ELSE IF outputType = "sum"
          THEN Metric(name, "sum",
                      <<NumberPoint("double", aggregatedValue, 0, timestamp,
                                    getEarliestTimestamp(groupMetrics, clock), labels)>>)
        ELSE IF outputType = "histogram"
          THEN Metric(name, "histogram",
                      <<HistPoint(aggregatedValue, SumOf(counts)[1], timestamp, 0, labels)>>)
        ELSE Metric(name, "empty", <<>>)

\* the metric the loop body of aggregateMetricsByResourceContext builds for
\* one group (temporality and monotonicity of a sum output are fixed values
\* and not kept)
ResultMetric(groupKey, groupMetrics, rule, groupByLabels, clock) ==
    LET outputType == IF rule.OutputMetricType = "" THEN "gauge" ELSE rule.OutputMetricType
        aggregatedValue == calculateAggregatedValue(groupMetrics, rule.AggregationType)
        timestamp == getLatestTimestamp(groupMetrics, clock)
        labels == setDataPointLabelsFromGroupKey(groupKey, groupByLabels, groupMetrics)
        name == sanitizeMetricName(rule.OutputMetricName)
    IN  IF outputType = "gauge"
          THEN Metric(name, "gauge", <<NumberPoint("double", aggregatedValue, 0, timestamp, 0, labels)>>)
        ELSE IF outputType = "sum"
          THEN Metric(name, "sum",
                      <<NumberPoint("double", aggregatedValue, 0, timestamp,
                                    getEarliestTimestamp(groupMetrics, clock), labels)>>)
        ELSE IF outputType = "histogram"
          THEN Metric(name, "histogram",
                      <<HistPoint(aggregatedValue, Len(groupMetrics), timestamp, 0, labels)>>)
        ELSE Metric(name, "empty", <<>>)

\* aggregateMetricsByResourceContext: one result per group, in the order the
\* range over the groups map happens to take
aggregateMetricsByResourceContext(metrics, rule, groupByLabels, clock, order) ==
    LET groups == groupMetricsByLabels(metrics, groupByLabels) IN
    [n \in 1..Len(order) |->
        [Metric |-> ResultMetric(order[n], groups[order[n]], rule, groupByLabels, clock),
         ResourceAttrs |-> extractResourceAttrsFromGroup(order[n], groupByLabels, groups[order[n]])]]

\* a stamping in which the group's promoted labels overwrite the markers
AggregatedResourceLabelsLast(result, markerAttrs) ==
    Resource(PutAll(markerAttrs, result.ResourceAttrs),
             <<Scope("metricsaggregator", <<result.Metric>>)>>)

\* step 3 of processAggregationRule: the resource appended for one result
AggregatedResource(result, markerAttrs) ==
    Resource(PutAll(result.ResourceAttrs, markerAttrs),
             <<Scope("metricsaggregator", <<result.Metric>>)>>)

(***************************************************************************)
(* Removal of originals                                                    *)
(***************************************************************************)
hasAggregatedMarkerAttributes(resourceAttrs, markerAttrs) ==
    \A key \in DOMAIN markerAttrs :
        Has(resourceAttrs, key) /\ resourceAttrs[key] = markerAttrs[key]

\* a removal that looks at the first scope of each resource only
removeOriginalMetricsFirstScope(batch, rule, markerAttrs) ==
    [i \in 1..Len(batch) |->
        IF hasAggregatedMarkerAttributes(batch[i].attrs, markerAttrs) THEN batch[i]
        ELSE Resource(batch[i].attrs,
                      [j \in 1..Len(batch[i].scopes) |->
                          IF j > 1 THEN batch[i].scopes[j]
                          ELSE Scope(batch[i].scopes[j].name,
                                     SelectSeq(batch[i].scopes[j].metrics,
                                               LAMBDA m : ~matchesPattern(m.name, rule)))])]

removeOriginalMetrics(batch, rule, markerAttrs) ==
    [i \in 1..Len(batch) |->
        IF hasAggregatedMarkerAttributes(batch[i].attrs, markerAttrs) THEN batch[i]
        ELSE Resource(batch[i].attrs,
                      [j \in 1..Len(batch[i].scopes) |->
                          Scope(batch[i].scopes[j].name,
                                SelectSeq(batch[i].scopes[j].metrics,
                                          LAMBDA m : ~matchesPattern(m.name, rule)))])]

(***************************************************************************)
(* One rule                                                                *)
(***************************************************************************)
\* the orders the range over the groups of this rule may take
GroupOrders(batch, rule, config) ==
    Orders(DOMAIN groupMetricsByLabels(collectMatchingMetrics(batch, rule), config.GroupByLabels))

\* processAggregationRule: the batch after the rule and the error returned
processAggregationRule(batch, rule, config, clock, order) ==
    LET matchingMetrics == collectMatchingMetrics(batch, rule)
        groupedResults == aggregateMetricsByResourceContext(
                              matchingMetrics, rule, config.GroupByLabels, clock, order)
        appended == batch \o [n \in 1..Len(groupedResults) |->
                        AggregatedResource(groupedResults[n], config.OutputResourceAttributes)]
    IN  IF Len(matchingMetrics) = 0 THEN [md |-> batch, err |-> "nil"]
        ELSE IF Len(groupedResults) = 0 THEN [md |-> batch, err |-> "nil"]
        ELSE IF ~rule.PreserveOriginalMetrics
          THEN [md |-> removeOriginalMetrics(appended, rule, config.OutputResourceAttributes),
                err |-> "nil"]
          ELSE [md |-> appended, err |-> "nil"]

(***************************************************************************)
(* processMetrics: the loop over the configured rules                      *)
(***************************************************************************)
\* a loop that stops at the first rule that matches no metric
processMetricsStepStopOnNoMatch(batch, idx, config, clock, order) ==
    LET rule == config.AggregationRules[idx]
        r == processAggregationRule(batch, rule, config, clock, order)
    IN  [md |-> r.md,
         next |-> IF Len(collectMatchingMetrics(batch, rule)) = 0
                    THEN Len(config.AggregationRules) + 1 ELSE idx + 1]

\* one iteration of the loop of processMetrics: the rule at idx is applied to
\* the batch; whether it returned an error or not, the loop goes on to idx + 1
processMetricsStep(batch, idx, config, clock, order) ==
    LET rule == config.AggregationRules[idx]
        r == processAggregationRule(batch, rule, config, clock, order)
    IN  [md |-> r.md, next |-> idx + 1]

\* the values the variables of the other components keep while one runs
KeyIdle  == /\ kIn = [r |-> EmptyMap, p |-> EmptyMap, labels |-> <<>>]
            /\ kOut = [done |-> FALSE, key |-> EmptyStr]
ProcIdle == /\ cfg = [GroupByLabels |-> <<>>, OutputResourceAttributes |-> EmptyMap,
                      AggregationRules |-> <<>>]
            /\ md = <<>> /\ input = <<>> /\ pre = <<>> /\ applied = <<>>
            /\ ruleIdx = 1 /\ pc = "idle" /\ ret = [md |-> <<>>, err |-> "none"]
NoOp     == [op |-> "none", batch |-> <<>>, filters |-> EmptyMap, pattern |-> <<>>,
             before |-> {}, at |-> 0, count |-> 0, snapshot |-> {}]
AccIdle  == /\ acc = {} /\ ttl = 0
            /\ lastOp = NoOp
\* the error of a validation: nil, or the failed check and the index of its rule
Nil      == [kind |-> "nil", index |-> 0]
NoResult == [called |-> FALSE, err |-> Nil]
\* an HTTP request to the cleanup endpoint: the method, whether the body
\* decodes as JSON into a CleanupRequest, and the fields it decodes to
Request(method, decodes, type, filters, pattern) ==
    [method |-> method, decodes |-> decodes, Type |-> type, Filters |-> filters,
     Pattern |-> pattern]
\* no request handled yet; a response holds the status code and the fields
\* Success and DeletedCount, with the store before and after the handler
NoResp   == [req |-> Request("", FALSE, "", EmptyMap, <<>>), status |-> 0, success |-> FALSE,
             deleted |-> 0, before |-> {}, after |-> {}]
AuxIdle  == /\ san = [name |-> <<>>, out |-> <<>>, again |-> <<>>, pass |-> 0]
            /\ vres = NoResult
            /\ calls = <<>>
            /\ resp = NoResp

ProcessRule ==
    /\ pc = "loop"
    /\ ruleIdx <= Len(cfg.AggregationRules)
    /\ \E order \in GroupOrders(md, cfg.AggregationRules[ruleIdx], cfg) :
          LET step == processMetricsStep(md, ruleIdx, cfg, now, order) IN
          /\ md' = step.md
          /\ ruleIdx' = step.next
    /\ pre' = md
    /\ applied' = Append(applied,
                         [rule |-> ruleIdx,
                          matched |-> Len(collectMatchingMetrics(md, cfg.AggregationRules[ruleIdx])) > 0])
    /\ UNCHANGED <<cfg, pc, ret, input, now, keyVars, accVars, auxVars>>

Return ==
    /\ pc = "loop"
    /\ ruleIdx > Len(cfg.AggregationRules)
    /\ pc' = "returned"
    /\ ret' = [md |-> md, err |-> "nil"]
    /\ UNCHANGED <<cfg, md, ruleIdx, pre, input, applied, now, keyVars, accVars, auxVars>>

NextProc == ProcessRule \/ Return

(***************************************************************************)
(* Inputs                                                                  *)
(***************************************************************************)
Map1(k, v) == [x \in {k} |-> v]
Map2(k1, v1, k2, v2) == [x \in {k1, k2} |-> IF x = k1 THEN v1 ELSE v2]

\* all sequences over S of length lo..hi
SeqsOf(S, lo, hi) == UNION {[1..n -> S] : n \in lo..hi}

\* all maps from a subset of keys to values
MapsOver(keys, values) == UNION {[d -> values] : d \in SUBSET keys}

MaxLabels == 2

KeyLabels == {<<"a">>, <<"b">>}
KeyValues == {<<>>, <<"x">>, <<"y">>}

(***************************************************************************)
(* Specification of the group key builder on its own                       *)
(***************************************************************************)
BuildKey ==
    /\ ~kOut.done
    /\ kOut' = [done |-> TRUE,
                key |-> buildGroupKeyFromPresentAttributes(kIn.r, kIn.p, kIn.labels)]
    /\ UNCHANGED <<kIn, now, procVars, accVars, auxVars>>

InitKey ==
    /\ kIn \in [r : MapsOver(KeyLabels, KeyValues),
                p : MapsOver(KeyLabels, KeyValues),
                labels : SeqsOf(KeyLabels, 0, MaxLabels)]
    /\ kOut = [done |-> FALSE, key |-> EmptyStr]
    /\ now = 0
    /\ ProcIdle /\ AccIdle /\ AuxIdle

NextKey == BuildKey

SpecKey == InitKey /\ [][NextKey]_vars

\* C2: buildGroupKey returns the name=value pairs of the label names that are
\* present, in the given order, joined by `|`; the value of a label is the
\* point attribute when the point has it and the resource attribute otherwise;
\* a label in neither map is left out; an empty value is kept as `name=`; the
\* result is "all" when no label is present or the label list is empty.
PresentLabels(resourceAttrs, pointAttrs, labelNames) ==
    SelectSeq(labelNames, LAMBDA l : l \in (DOMAIN pointAttrs) \cup (DOMAIN resourceAttrs))

ExpectedGroupKey(resourceAttrs, pointAttrs, labelNames) ==
    LET present == PresentLabels(resourceAttrs, pointAttrs, labelNames)
        pair(l) == l \o <<"=">> \o (IF l \in DOMAIN pointAttrs THEN pointAttrs[l] ELSE resourceAttrs[l])
    IN  IF Len(present) = 0 THEN <<"a", "l", "l">>
        ELSE Join([i \in 1..Len(present) |-> pair(present[i])], <<"|">>)

GroupKeyContract ==
    kOut.done => kOut.key = ExpectedGroupKey(kIn.r, kIn.p, kIn.labels)

\* a call in which one label is in both maps with different values, and the
\* other label is missing from the point and empty in the resource
GroupKeyWitness ==
    /\ kOut.done
    /\ kIn.labels = <<<<"a">>, <<"b">>>>
    /\ <<"a">> \in DOMAIN kIn.p /\ <<"a">> \in DOMAIN kIn.r /\ kIn.p[<<"a">>] # kIn.r[<<"a">>]
    /\ <<"b">> \notin DOMAIN kIn.p /\ <<"b">> \in DOMAIN kIn.r /\ kIn.r[<<"b">>] = <<>>
    /\ kOut.key = <<"a", "=">> \o kIn.p[<<"a">>] \o <<"|", "b", "=">>

(***************************************************************************)
(* Inputs of the processor                                                 *)
(***************************************************************************)
LabelA  == <<"a">>
MarkerM == <<"m">>
NameT   == <<"t">>
NameTx  == <<"t", "x">>
NameO   == <<"o">>
NameU   == <<"u">>

DoublePoint(n, d, attrs) == NumberPoint("double", Rat(n, d), 0, 3, 1, attrs)
IntPoint(i, attrs) == NumberPoint("int", RZero, i, 4, 2, attrs)
\* a number data point with no value set (NumberDataPointValueTypeEmpty)
EmptyPoint(attrs) == NumberPoint("empty", RZero, 0, 3, 1, attrs)
\* a data point of a summary metric; the processor never reads one
SummaryPoint(attrs) ==
    [vt |-> "summary", dbl |-> RZero, int |-> 0, sum |-> RZero, count |-> 1,
     ts |-> 3, start |-> 1, attrs |-> attrs]

Rule(pattern, matchType, outputName, aggregationType, preserve, outputType) ==
    [MetricPattern |-> pattern, MatchType |-> matchType, OutputMetricName |-> outputName,
     AggregationType |-> aggregationType, PreserveOriginalMetrics |-> preserve,
     OutputMetricType |-> outputType]

Config(groupByLabels, markerAttrs, rules) ==
    [GroupByLabels |-> groupByLabels, OutputResourceAttributes |-> markerAttrs,
     AggregationRules |-> rules]

\* processMetrics has just been called with batch under config
ProcCalled(config, batch) ==
    /\ cfg = config
    /\ md = batch /\ input = batch /\ pre = batch
    /\ applied = <<>> /\ ruleIdx = 1 /\ pc = "loop"
    /\ ret = [md |-> <<>>, err |-> "none"]

(***************************************************************************)
(* Specification of one rule over groups of mixed values (SpecAgg)         *)
(***************************************************************************)
MaxPoints == 2

AggPointMenu ==
    {DoublePoint(10, 1, EmptyMap), IntPoint(-5, EmptyMap),
     IntPoint(0, Map1(LabelA, <<"y">>)), DoublePoint(20, 1, Map1(LabelA, <<"y">>)),
     EmptyPoint(EmptyMap)}

AggSecondResource ==
    {<<>>,
     <<Resource(Map1(LabelA, <<"y">>),
                <<Scope("s1", <<Metric(NameT, "gauge", <<DoublePoint(1, 1, EmptyMap)>>)>>)>>)>>,
     <<Resource(Map1(LabelA, <<"y">>),
                <<Scope("s1", <<Metric(NameT, "histogram",
                                       <<HistPoint(Rat(7, 1), 10, 3, 1, EmptyMap)>>)>>)>>)>>,
     <<Resource(Map1(LabelA, <<"y">>),
                <<Scope("s1", <<Metric(NameT, "histogram",
                                       <<HistPoint(Rat(150, 1), 10, 3, 1, EmptyMap),
                                         HistPoint(Rat(200, 1), 15, 3, 1, EmptyMap)>>)>>)>>)>>}

AggBatches ==
    {<<Resource(Map1(LabelA, <<"x">>), <<Scope("s1", <<Metric(NameT, type, dps)>>)>>)>> \o second :
        type \in {"gauge", "sum"}, dps \in SeqsOf(AggPointMenu, 1, MaxPoints),
        second \in AggSecondResource}

AggRules ==
    {Rule(NameT, "strict", NameO, aggregationType, TRUE, outputType) :
        aggregationType \in {"sum", "", "mean", "min", "max", "count", "median"},
        outputType \in {"", "histogram"}}
    \cup {Rule(NameT, "strict", NameO, "median", FALSE, "")}

InitAgg ==
    /\ \E rule \in AggRules, batch \in AggBatches :
          ProcCalled(Config(<<LabelA>>, Map1(MarkerM, <<"1">>), <<rule>>), batch)
    /\ now = 5
    /\ KeyIdle /\ AccIdle /\ AuxIdle

SpecAgg == InitAgg /\ [][NextProc]_vars

(***************************************************************************)
(* Views of a batch used to state the properties                           *)
(***************************************************************************)
\* every data point of the batch with the name and type of its metric and the
\* attributes of its resource, in scan order
AllPoints(batch) ==
    Flatten([i \in 1..Len(batch) |->
        Flatten([j \in 1..Len(batch[i].scopes) |->
            Flatten([k \in 1..Len(batch[i].scopes[j].metrics) |->
                LET m == batch[i].scopes[j].metrics[k] IN
                [q \in 1..Len(m.dps) |->
                    [name |-> m.name, type |-> m.type, rattrs |-> batch[i].attrs,
                     res |-> i, dp |-> m.dps[q]]]])])])

\* every metric of the batch with the index of its resource, in scan order
AllMetrics(batch) ==
    Flatten([i \in 1..Len(batch) |->
        Flatten([j \in 1..Len(batch[i].scopes) |->
            [k \in 1..Len(batch[i].scopes[j].metrics) |->
                [res |-> i, scope |-> j, metric |-> batch[i].scopes[j].metrics[k]]]])])

\* the name is one the rule's pattern selects, as the specification defines it
NameSelected(name, rule) ==
    \/ rule.MatchType \in {"strict", ""} /\ name = rule.MetricPattern
    \/ rule.MatchType = "regex" /\ RegexCompiles(rule.MetricPattern)
                                /\ RegexMatch(rule.MetricPattern, name)

\* the data points that take part in a rule: those of the gauge, sum and
\* histogram metrics the pattern selects
RulePoints(batch, rule) ==
    SelectSeq(AllPoints(batch),
              LAMBDA pt : NameSelected(pt.name, rule) /\ pt.type \in {"gauge", "sum", "histogram"})

\* the grouping labels present for a data point, with their values
LabelsOfPoint(pt, labelNames) ==
    [l \in {labelNames[n] : n \in 1..Len(labelNames)} \cap ((DOMAIN pt.dp.attrs) \cup (DOMAIN pt.rattrs)) |->
        IF l \in DOMAIN pt.dp.attrs THEN pt.dp.attrs[l] ELSE pt.rattrs[l]]

\* the numeric value a data point holds, as a sequence of zero or one values
ValueOfPoint(pt) ==
    IF pt.dp.vt = "double" THEN <<pt.dp.dbl>>
    ELSE IF pt.dp.vt = "int" THEN <<<<pt.dp.int, 1>>>>
    ELSE IF pt.dp.vt = "hist" THEN <<pt.dp.sum>>
    ELSE <<>>

\* the resources a rule step appended
AppendedBy(before, after) == {n \in 1..Len(after) : n > Len(before)}

\* the one synthesized data point of an appended resource, and its value
OutPoint(res) == res.scopes[1].metrics[1].dps[1]
OutValue(res) == IF OutPoint(res).vt = "hist" THEN OutPoint(res).sum ELSE OutPoint(res).dbl

\* the grouping labels an appended resource shows: its resource attributes
\* other than the markers, and the attributes of its data point
OutLabels(res, markerAttrs) ==
    LET own == [l \in (DOMAIN res.attrs) \ (DOMAIN markerAttrs) |-> res.attrs[l]]
    IN  PutAll(own, OutPoint(res).attrs)

RECURSIVE RatSum(_)
RatSum(values) ==
    IF Len(values) = 0 THEN <<0, 1>>
    ELSE LET r == RatSum(Tail(values)) h == Head(values)
         IN  Rat(h[1] * r[2] + r[1] * h[2], h[2] * r[2])

RatLeq(x, y) == x[1] * y[2] <= y[1] * x[2]

\* v is the aggregate of values under the aggregation type
IsAggregate(v, values, aggregationType) ==
    LET n == Len(values) IN
    CASE aggregationType \in {"sum", ""} -> v = RatSum(values)
      [] aggregationType = "mean"  -> v[1] * RatSum(values)[2] * n = RatSum(values)[1] * v[2]
      [] aggregationType = "min"   -> /\ \E i \in 1..n : values[i] = v
                                      /\ \A i \in 1..n : RatLeq(v, values[i])
      [] aggregationType = "max"   -> /\ \E i \in 1..n : values[i] = v
                                      /\ \A i \in 1..n : RatLeq(values[i], v)
      [] aggregationType = "count" -> v = <<n, 1>>
      [] OTHER -> TRUE

\* C1: for every group that holds at least one numeric value, the value of
\* the synthesized data point is the aggregate (sum, mean, min, max, count)
\* of the values of exactly the data points of that group, integer values
\* taken as the equal floating value.
AggregateContract ==
    (ruleIdx = 2 /\ Len(cfg.AggregationRules) = 1) =>
        LET rule == cfg.AggregationRules[1]
            pts == RulePoints(pre, rule)
            membersOf(labels) ==
                SelectSeq(pts, LAMBDA pt : LabelsOfPoint(pt, cfg.GroupByLabels) = labels)
            valuesOf(labels) ==
                Flatten([n \in 1..Len(membersOf(labels)) |-> ValueOfPoint(membersOf(labels)[n])])
        IN  /\ \A n \in 1..Len(pts) :
                Len(valuesOf(LabelsOfPoint(pts[n], cfg.GroupByLabels))) > 0 =>
                    \E r \in AppendedBy(pre, md) :
                        OutLabels(md[r], cfg.OutputResourceAttributes)
                            = LabelsOfPoint(pts[n], cfg.GroupByLabels)
            /\ \A r \in AppendedBy(pre, md) :
                  LET values == valuesOf(OutLabels(md[r], cfg.OutputResourceAttributes)) IN
                  Len(values) > 0 =>
                      IsAggregate(OutValue(md[r]), values, rule.AggregationType)

\* a mean over a group that mixes a double 10 with an integer -5
AggregateWitness ==
    /\ ruleIdx = 2
    /\ cfg.AggregationRules[1].AggregationType = "mean"
    /\ pre[1].scopes[1].metrics[1].dps = <<DoublePoint(10, 1, EmptyMap), IntPoint(-5, EmptyMap)>>
    /\ \E r \in AppendedBy(pre, md) :
          /\ md[r].attrs[LabelA] = <<"x">>
          /\ OutValue(md[r]) = <<5, 2>>

(***************************************************************************)
(* Specification of the rule loop over batches of several resources,       *)
(* scopes and metric types (SpecRules)                                     *)
(***************************************************************************)
MaxRules == 2

Gauge(name, dps) == Metric(name, "gauge", dps)

RuleMenu ==
    {Rule(NameT, "regex", NameO, "mean", TRUE, "sum"),
     Rule(<<"[", "t">>, "regex", NameO, "sum", FALSE, ""),
     Rule(NameT, "glob", NameO, "sum", FALSE, ""),
     Rule(NameO, "strict", <<"p">>, "max", FALSE, "histogram"),
     Rule(NameT, "", NameT, "sum", FALSE, "gauge"),
     Rule(NameT, "strict", <<"9", "-", "o">>, "count", TRUE, "summary")}

RuleBatches ==
    {\* one resource, two scopes, matching and other metrics in both
     <<Resource(Map1(LabelA, <<"x">>),
                <<Scope("s1", <<Gauge(NameT, <<DoublePoint(1, 1, EmptyMap)>>),
                                Gauge(NameU, <<DoublePoint(2, 1, EmptyMap)>>)>>),
                  Scope("s2", <<Metric(NameT, "sum", <<IntPoint(3, EmptyMap)>>),
                                Gauge(NameTx, <<DoublePoint(4, 1, EmptyMap)>>)>>)>>)>>,
     \* an input resource that carries the marker, and a metric named like an output
     <<Resource(Map1(MarkerM, <<"1">>), <<Scope("s1", <<Gauge(NameT, <<DoublePoint(5, 1, EmptyMap)>>)>>)>>),
       Resource(Map1(LabelA, <<"x">>),
                <<Scope("s1", <<Gauge(NameT, <<DoublePoint(6, 1, EmptyMap)>>),
                                Gauge(NameO, <<DoublePoint(7, 1, EmptyMap)>>)>>)>>)>>,
     \* the marker key as a grouping label with another value; data points of
     \* one metric in different groups, and one group over two resources
     <<Resource(Map1(MarkerM, <<"0">>),
                <<Scope("s1", <<Gauge(NameT, <<IntPoint(-2, Map1(LabelA, <<"x">>)),
                                               DoublePoint(9, 1, Map1(LabelA, <<"y">>))>>)>>)>>),
       Resource(Map2(LabelA, <<"x">>, MarkerM, <<"0">>),
                <<Scope("s1", <<Gauge(NameT, <<DoublePoint(8, 1, EmptyMap)>>)>>)>>)>>,
     \* matching metrics that hold no data point the processor groups
     <<Resource(Map1(LabelA, <<"x">>),
                <<Scope("s1", <<Metric(NameT, "summary", <<SummaryPoint(EmptyMap)>>),
                                Gauge(NameT, <<>>),
                                Gauge(NameU, <<DoublePoint(2, 1, EmptyMap)>>)>>)>>)>>,
     \* the same beside a matching metric that forms a group, and a matching
     \* metric whose one data point has no value
     <<Resource(Map1(LabelA, <<"x">>),
                <<Scope("s1", <<Gauge(NameT, <<DoublePoint(1, 1, EmptyMap)>>),
                                Metric(NameT, "summary", <<SummaryPoint(EmptyMap)>>),
                                Gauge(NameT, <<>>),
                                Metric(NameT, "sum", <<EmptyPoint(Map1(LabelA, <<"y">>))>>)>>)>>)>>}

\* the grouping labels with the marker attributes: the marker key among the
\* grouping labels, and a configuration without markers
RuleSettings ==
    {<<<<LabelA>>, Map1(MarkerM, <<"1">>)>>,
     <<<<LabelA, MarkerM>>, Map1(MarkerM, <<"1">>)>>,
     <<<<LabelA>>, EmptyMap>>}

InitRules ==
    /\ \E setting \in RuleSettings,
          rules \in SeqsOf(RuleMenu, 1, MaxRules), batch \in RuleBatches :
          ProcCalled(Config(setting[1], setting[2], rules), batch)
    /\ now = 5
    /\ KeyIdle /\ AccIdle /\ AuxIdle

SpecRules == InitRules /\ [][NextProc]_vars

(***************************************************************************)
(* Properties of one rule step.  After a step, pre is the batch the rule   *)
(* was applied to, md the batch it left, and the rule is the one before    *)
(* ruleIdx.                                                                *)
(***************************************************************************)
RuleApplied == ruleIdx > 1
LastRule == cfg.AggregationRules[ruleIdx - 1]

\* the data points of the metrics the pattern selects, of whatever type
SelectedPoints(batch, rule) ==
    SelectSeq(AllPoints(batch), LAMBDA pt : NameSelected(pt.name, rule))

\* the distinct group keys of a sequence of data points
KeysOf(pts, labelNames) ==
    {ExpectedGroupKey(pts[n].rattrs, pts[n].dp.attrs, labelNames) : n \in 1..Len(pts)}

LacksMarkers(attrs, markerAttrs) ==
    \E k \in DOMAIN markerAttrs : k \notin DOMAIN attrs \/ attrs[k] # markerAttrs[k]

\* an appended resource holds one scope with one metric of the sanitized
\* output name and the configured shape, with one data point
WellFormedOutput(res, rule) ==
    /\ Len(res.scopes) = 1
    /\ Len(res.scopes[1].metrics) = 1
    /\ res.scopes[1].metrics[1].name = sanitizeMetricName(rule.OutputMetricName)
    /\ res.scopes[1].metrics[1].type
          = (IF rule.OutputMetricType = "" THEN "gauge" ELSE rule.OutputMetricType)
    /\ Len(res.scopes[1].metrics[1].dps) = 1

\* C3 as stated: a rule that matches at least one data point appends one well
\* formed output resource per distinct group key of the matching data points.
OutputPerGroupAsStated ==
    RuleApplied =>
        LET pts == SelectedPoints(pre, LastRule) IN
        (Len(pts) = 0) \/
            /\ Cardinality(AppendedBy(pre, md)) = Cardinality(KeysOf(pts, cfg.GroupByLabels))
            /\ \A r \in AppendedBy(pre, md) : WellFormedOutput(md[r], LastRule)

\* C3 as amended: a rule whose output type is gauge, sum, histogram or empty
\* and that matches at least one data point of a gauge, sum or histogram
\* metric appends one output resource per distinct group key of those data
\* points, each with one scope, one metric of the sanitized output name and
\* the configured shape (gauge when none), and one data point.
OutputPerGroup ==
    RuleApplied =>
        LET pts == RulePoints(pre, LastRule) IN
        (Len(pts) = 0) \/ (LastRule.OutputMetricType \notin {"", "gauge", "sum", "histogram"}) \/
            /\ Cardinality(AppendedBy(pre, md)) = Cardinality(KeysOf(pts, cfg.GroupByLabels))
            /\ \A r \in AppendedBy(pre, md) : WellFormedOutput(md[r], LastRule)

\* two groups out of three data points of two metrics: the data points of one
\* metric fall into different groups
OutputPerGroupWitness ==
    /\ RuleApplied
    /\ cfg.GroupByLabels = <<LabelA, MarkerM>>
    /\ LastRule.OutputMetricType = "sum"
    /\ Len(RulePoints(pre, LastRule)) = 3
    /\ Cardinality(KeysOf(RulePoints(pre, LastRule), cfg.GroupByLabels)) = 2
    /\ Cardinality(AppendedBy(pre, md)) = 2

\* the metrics of a batch whose name the pattern selects, in resources that
\* lack the markers
SelectedOriginals(batch, rule, markerAttrs) ==
    SelectSeq(AllMetrics(batch),
              LAMBDA e : /\ NameSelected(e.metric.name, rule)
                         /\ LacksMarkers(batch[e.res].attrs, markerAttrs))

\* every metric of the batch before is still in the batch after, in its place
AllKept(before, after) ==
    /\ Len(after) >= Len(before)
    /\ \A i \in 1..Len(before) : after[i] = before[i]

\* C4 as stated: after a rule with preserveOriginals=false on a batch in which
\* some metric name matches, no resource without the markers holds a metric
\* whose name matches; with preserveOriginals=true every metric is kept.
RemovalAsStated ==
    (RuleApplied /\ \E n \in 1..Len(AllMetrics(pre)) :
                        NameSelected(AllMetrics(pre)[n].metric.name, LastRule)) =>
            IF LastRule.PreserveOriginalMetrics
              THEN AllKept(pre, md)
              ELSE Len(SelectedOriginals(md, LastRule, cfg.OutputResourceAttributes)) = 0

\* C4 as amended: the same, for a batch in which some gauge, sum or histogram
\* metric whose name matches the pattern holds at least one data point.
Removal ==
    (RuleApplied /\ Len(RulePoints(pre, LastRule)) > 0) =>
            IF LastRule.PreserveOriginalMetrics
              THEN AllKept(pre, md)
              ELSE Len(SelectedOriginals(md, LastRule, cfg.OutputResourceAttributes)) = 0

\* a removal that took matching metrics out of two scopes of one resource and
\* left the other metrics there
RemovalWitness ==
    /\ RuleApplied
    /\ ~LastRule.PreserveOriginalMetrics
    /\ Len(pre[1].scopes) = 2
    /\ Len(pre[1].scopes[1].metrics) = 2 /\ Len(md[1].scopes[1].metrics) = 1
    /\ Len(pre[1].scopes[2].metrics) = 2 /\ Len(md[1].scopes[2].metrics) = 1
    /\ Cardinality(AppendedBy(pre, md)) = 1

\* the resources the engine appended since the call began
Synthesized(batch) == {n \in 1..Len(batch) : n > Len(input)}

\* C5: every resource the engine appended carries every marker attribute with
\* its configured value, also when a promoted group label has the key of a
\* marker, and the removal of the same rule and of every later rule leaves
\* its one metric in place.
MarkedOutputsKept ==
    /\ \A r \in Synthesized(md) :
          /\ ~LacksMarkers(md[r].attrs, cfg.OutputResourceAttributes)
          /\ Len(md[r].scopes) = 1 /\ Len(md[r].scopes[1].metrics) = 1
    /\ \A r \in Synthesized(pre) : md[r] = pre[r]

\* a later rule without preserveOriginals selects the name of a metric that
\* an earlier rule synthesized for a group whose promoted label m collides
\* with the marker m, and the metric is still there
MarkedOutputsKeptWitness ==
    /\ ruleIdx = 3
    /\ ~LastRule.PreserveOriginalMetrics
    /\ cfg.GroupByLabels = <<LabelA, MarkerM>>
    /\ cfg.OutputResourceAttributes = Map1(MarkerM, <<"1">>)
    /\ Has(input[1].attrs, MarkerM) /\ input[1].attrs[MarkerM] = <<"0">>
    /\ \E r \in Synthesized(pre) :
          /\ NameSelected(pre[r].scopes[1].metrics[1].name, LastRule)
          /\ md[r].attrs[MarkerM] = <<"1">>
          /\ md[r].scopes[1].metrics[1].name = pre[r].scopes[1].metrics[1].name
    /\ Cardinality(AppendedBy(pre, md)) > 0

\* no metric of the batch has a name the rule selects
MatchesNothing(batch, rule) ==
    \A n \in 1..Len(AllMetrics(batch)) : ~NameSelected(AllMetrics(batch)[n].metric.name, rule)

\* the batches the rules from idx on can leave, each applied to what the one
\* before left, with the rules that match nothing left out altogether
RECURSIVE Outcomes(_, _, _, _)
Outcomes(batch, idx, config, clock) ==
    IF idx > Len(config.AggregationRules) THEN {batch}
    ELSE LET rule == config.AggregationRules[idx] IN
         IF MatchesNothing(batch, rule) THEN Outcomes(batch, idx + 1, config, clock)
         ELSE UNION {Outcomes(processAggregationRule(batch, rule, config, clock, order).md,
                              idx + 1, config, clock) :
                     order \in GroupOrders(batch, rule, config)}

\* C6: processMetrics applies the rules one after the other in configured
\* order, each on the batch the preceding ones left, and returns that batch
\* with no error; what it returns is what the rules that match something
\* produce in that order, so a rule that fails or matches nothing changes
\* nothing of what the following rules produce.
RulesInOrder ==
    /\ Len(applied) = ruleIdx - 1
    /\ \A n \in 1..Len(applied) : applied[n].rule = n
    /\ pc = "loop" => ruleIdx <= Len(cfg.AggregationRules) + 1
    /\ pc = "returned" =>
          /\ ruleIdx = Len(cfg.AggregationRules) + 1
          /\ ret = [md |-> md, err |-> "nil"]
          /\ md \in Outcomes(input, 1, cfg, now)

\* a call returned in which the first rule matched nothing and the second
\* one appended its output
RulesInOrderWitness ==
    /\ pc = "returned"
    /\ Len(cfg.AggregationRules) = 2
    /\ MatchesNothing(input, cfg.AggregationRules[1])
    /\ Len(ret.md) > Len(input)

\* C7: a rule that matches no metric of the batch, because no name matches,
\* because its regex does not compile or because its match type is unknown,
\* leaves the batch exactly as it was and no error is returned.
NoMatchNoChange ==
    /\ (RuleApplied /\ MatchesNothing(pre, LastRule)) => md = pre
    /\ pc = "returned" => ret.err = "nil"

\* each of the three causes has left a batch that holds a metric named by the
\* pattern as it was, under a rule without preserveOriginals
NoMatchNoChangeWitness ==
    /\ pc = "returned"
    /\ Len(cfg.AggregationRules) = 2
    /\ cfg.AggregationRules[1].MatchType = "glob"
    /\ cfg.AggregationRules[1].MetricPattern = NameT
    /\ ~cfg.AggregationRules[1].PreserveOriginalMetrics
    /\ cfg.AggregationRules[2].MatchType = "regex"
    /\ ~RegexCompiles(cfg.AggregationRules[2].MetricPattern)
    /\ \E n \in 1..Len(AllMetrics(input)) : AllMetrics(input)[n].metric.name = NameT
    /\ ret.md = input

(***************************************************************************)
(* The accumulator behind the exporter.  The store is the set of the       *)
(* accumulated values; each holds its identity, the last value and         *)
(* timestamp observed, the time it was inserted or refreshed, and the      *)
(* attributes of the scope it came in.                                     *)
(***************************************************************************)
ScopeWithAttrs(name, attrs, metrics) == [name |-> name, attrs |-> attrs, metrics |-> metrics]

\* the metric identity: name, shape, resource attributes, point attributes
Identity(name, type, resourceAttrs, pointAttrs) ==
    [name |-> name, type |-> type, rattrs |-> resourceAttrs, pattrs |-> pointAttrs]

AccumulatedValue(id, dp, scopeAttrs, clock) ==
    [id |-> id, value |-> dp.dbl, ts |-> dp.ts, insertedAt |-> clock, scopeAttrs |-> scopeAttrs]

\* an upsert that adds the entry and keeps the one the identity had
UpsertAppend(store, entry) == store \cup {entry}

\* upsert of one observation: the entry of the identity is overwritten
Upsert(store, entry) == {e \in store : e.id # entry.id} \cup {entry}

\* the observations of one resource in scan order
Observations(rm, clock) ==
    Flatten([j \in 1..Len(rm.scopes) |->
        Flatten([k \in 1..Len(rm.scopes[j].metrics) |->
            LET m == rm.scopes[j].metrics[k] IN
            [q \in 1..Len(m.dps) |->
                AccumulatedValue(Identity(m.name, m.type, rm.attrs, m.dps[q].attrs),
                                 m.dps[q], rm.scopes[j].attrs, clock)]])])

RECURSIVE UpsertAll(_, _)
UpsertAll(store, entries) ==
    IF Len(entries) = 0 THEN store
    ELSE UpsertAll(Upsert(store, Head(entries)), Tail(entries))

\* Accumulate: every data point of the resource is upserted under its identity
Accumulate(store, rm, clock) == UpsertAll(store, Observations(rm, clock))

\* an exporter that hands the resources of a batch over last to first
RECURSIVE ConsumeMetricsLastFirst(_, _, _)
ConsumeMetricsLastFirst(store, batch, clock) ==
    IF Len(batch) = 0 THEN [store |-> store, err |-> "nil"]
    ELSE ConsumeMetricsLastFirst(Accumulate(store, batch[Len(batch)], clock),
                                 SubSeq(batch, 1, Len(batch) - 1), clock)

\* ConsumeMetrics: the resources of the batch are accumulated first to last
RECURSIVE ConsumeMetrics(_, _, _)
ConsumeMetrics(store, batch, clock) ==
    IF Len(batch) = 0 THEN [store |-> store, err |-> "nil"]
    ELSE ConsumeMetrics(Accumulate(store, Head(batch), clock), Tail(batch), clock)

\* the passive expiry check
Expired(entry, ttlv, clock) == entry.insertedAt + ttlv < clock

\* Collect: the expired entries are evicted, the others make the snapshot
Collect(store, ttlv, clock) ==
    LET kept == {e \in store : ~Expired(e, ttlv, clock)}
    IN  [store |-> kept, snapshot |-> kept]

\* the accumulator's CleanExpired: the entries whose insertedAt + TTL is at or
\* before the time of the call are deleted
accumulatorCleanExpired(store, ttlv, clock) ==
    LET gone == {e \in store : e.insertedAt + ttlv <= clock}
    IN  [store |-> store \ gone, deleted |-> Cardinality(gone)]

\* an exporter whose CleanExpired applies the passive expiry check
CleanExpiredPassive(store, ttlv, clock) ==
    LET gone == {e \in store : Expired(e, ttlv, clock)}
    IN  [store |-> store \ gone, deleted |-> Cardinality(gone)]

\* an exporter whose CleanExpired empties the store
CleanExpiredAll(store, ttlv, clock) == [store |-> {}, deleted |-> Cardinality(store)]

\* the exporter's CleanExpired hands the call to the accumulator
CleanExpired(store, ttlv, clock) == accumulatorCleanExpired(store, ttlv, clock)

\* the labels of an entry for filtering: the resource attributes and the point
\* attributes, the point attribute taken when both have the key
extractLabelsFromMetric(entry) == PutAll(entry.id.rattrs, entry.id.pattrs)

matchesLabelFilters(entry, filters) ==
    LET labels == extractLabelsFromMetric(entry) IN
    \A k \in DOMAIN filters : Has(labels, k) /\ labels[k] = filters[k]

\* the accumulator's CleanByLabels: the entries that match every filter are
\* deleted and counted
accumulatorCleanByLabels(store, filters) ==
    LET gone == {e \in store : matchesLabelFilters(e, filters)}
    IN  [store |-> store \ gone, deleted |-> Cardinality(gone)]

\* an exporter that reports the number of filter keys
CleanByLabelsCountKeys(store, filters) ==
    [store |-> accumulatorCleanByLabels(store, filters).store,
     deleted |-> Cardinality(DOMAIN filters)]

\* the exporter's CleanByLabels hands the call to the accumulator
CleanByLabels(store, filters) == accumulatorCleanByLabels(store, filters)

\* the name of an entry is one the pattern selects: the pattern is tried as a
\* regular expression and as a literal part of the name
matchesNamePattern(entry, namePattern) ==
    \/ RegexMatch(namePattern, entry.id.name)
    \/ Contains(entry.id.name, namePattern)

\* the accumulator's CleanByMetricName: a pattern that does not compile is
\* logged and matches nothing; otherwise the entries whose name the pattern
\* selects are deleted and counted
accumulatorCleanByMetricName(store, namePattern) ==
    IF ~RegexCompiles(namePattern) THEN [store |-> store, deleted |-> 0]
    ELSE LET gone == {e \in store : matchesNamePattern(e, namePattern)}
         IN  [store |-> store \ gone, deleted |-> Cardinality(gone)]

\* an exporter that tries the pattern as a regular expression only
CleanByMetricNameRegexOnly(store, namePattern) ==
    IF ~RegexCompiles(namePattern) THEN [store |-> store, deleted |-> 0]
    ELSE LET gone == {e \in store : RegexMatch(namePattern, e.id.name)}
         IN  [store |-> store \ gone, deleted |-> Cardinality(gone)]

\* an exporter that falls back to the literal text when the pattern does not
\* compile
CleanByMetricNameLiteralFallback(store, namePattern) ==
    LET gone == {e \in store : \/ Contains(e.id.name, namePattern)
                               \/ RegexCompiles(namePattern) /\ RegexMatch(namePattern, e.id.name)}
    IN  [store |-> store \ gone, deleted |-> Cardinality(gone)]

\* the exporter's CleanByMetricName hands the call to the accumulator
CleanByMetricName(store, namePattern) == accumulatorCleanByMetricName(store, namePattern)

(***************************************************************************)
(* The exporter at work: batches come in, the scrape collects, the cleanup *)
(* operations are called, and time passes.                                 *)
(***************************************************************************)
MaxTime == 2

ConsumeMetricsCall(batch) ==
    /\ acc' = ConsumeMetrics(acc, batch, now).store
    /\ lastOp' = [NoOp EXCEPT !.op = "consume", !.batch = batch, !.before = acc, !.at = now]
    /\ UNCHANGED <<ttl, now, keyVars, procVars, auxVars>>

CollectCall ==
    LET r == Collect(acc, ttl, now) IN
    /\ acc' = r.store
    /\ lastOp' = [NoOp EXCEPT !.op = "collect", !.before = acc, !.at = now,
                              !.snapshot = r.snapshot]
    /\ UNCHANGED <<ttl, now, keyVars, procVars, auxVars>>

CleanExpiredCall ==
    LET r == CleanExpired(acc, ttl, now) IN
    /\ acc' = r.store
    /\ lastOp' = [NoOp EXCEPT !.op = "cleanExpired", !.before = acc, !.at = now,
                              !.count = r.deleted]
    /\ UNCHANGED <<ttl, now, keyVars, procVars, auxVars>>

CleanByLabelsCall(filters) ==
    LET r == CleanByLabels(acc, filters) IN
    /\ acc' = r.store
    /\ lastOp' = [NoOp EXCEPT !.op = "cleanByLabels", !.filters = filters, !.before = acc,
                              !.at = now, !.count = r.deleted]
    /\ UNCHANGED <<ttl, now, keyVars, procVars, auxVars>>

CleanByMetricNameCall(namePattern) ==
    LET r == CleanByMetricName(acc, namePattern) IN
    /\ acc' = r.store
    /\ lastOp' = [NoOp EXCEPT !.op = "cleanByName", !.pattern = namePattern, !.before = acc,
                              !.at = now, !.count = r.deleted]
    /\ UNCHANGED <<ttl, now, keyVars, procVars, auxVars>>

Tick ==
    /\ now < MaxTime
    /\ now' = now + 1
    /\ UNCHANGED <<acc, ttl, lastOp, keyVars, procVars, auxVars>>

JobJ == <<"j">>
SvcS == <<"s">>
NameG == <<"g">>

AccPoint(value, ts, attrs) == NumberPoint("double", Rat(value, 1), 0, ts, 0, attrs)
AccResource(attrs, scopeAttrs, type, dp) ==
    Resource(attrs, <<ScopeWithAttrs("s1", scopeAttrs, <<Metric(NameG, type, <<dp>>)>>)>>)

\* j=X at the resource
ResA(value, ts) == AccResource(Map1(JobJ, <<"X">>), EmptyMap, "gauge", AccPoint(value, ts, EmptyMap))
\* j=Y at the resource, j=X at the point
ResB(value, ts) == AccResource(Map1(JobJ, <<"Y">>), EmptyMap, "gauge",
                               AccPoint(value, ts, Map1(JobJ, <<"X">>)))
\* j=Y and s=W at the resource, j=X at the scope
ResC(value, ts) == AccResource(Map2(JobJ, <<"Y">>, SvcS, <<"W">>), Map1(JobJ, <<"X">>), "gauge",
                               AccPoint(value, ts, EmptyMap))
\* as ResA, of another shape
ResD(value, ts) == AccResource(Map1(JobJ, <<"X">>), EmptyMap, "sum", AccPoint(value, ts, EmptyMap))

AccBatches ==
    {<<ResA(1, 7)>>,
     <<ResA(2, 3)>>,
     <<ResA(1, 7), ResA(2, 8)>>,
     <<ResB(1, 7), ResC(1, 7)>>,
     <<ResD(1, 7), ResB(2, 8)>>}

AccFilters ==
    {Map1(JobJ, <<"X">>), Map1(JobJ, <<"Y">>),
     Map2(JobJ, <<"Y">>, SvcS, <<"W">>), Map2(JobJ, <<"X">>, SvcS, <<"W">>)}

AccPatterns == {NameG, <<"z">>}

TTLs == {1, 2}

InitAcc ==
    /\ acc = {} /\ lastOp = NoOp /\ now = 0
    /\ ttl \in TTLs
    /\ KeyIdle /\ ProcIdle /\ AuxIdle

NextAcc ==
    \/ \E batch \in AccBatches : ConsumeMetricsCall(batch)
    \/ CollectCall
    \/ CleanExpiredCall
    \/ \E filters \in AccFilters : CleanByLabelsCall(filters)
    \/ \E namePattern \in AccPatterns : CleanByMetricNameCall(namePattern)
    \/ Tick

SpecAcc == InitAcc /\ [][NextAcc]_vars

\* the observations of a batch in the order the exporter hands them over
BatchObservations(batch) ==
    [n \in 1..Len(AllPoints(batch)) |->
        LET pt == AllPoints(batch)[n] IN
        [id |-> Identity(pt.name, pt.type, pt.rattrs, pt.dp.attrs),
         value |-> pt.dp.dbl, ts |-> pt.dp.ts]]

EntriesOf(store, id) == {e \in store : e.id = id}

\* C8: the store holds at most one entry per identity, and after a batch was
\* accumulated the entry of every identity observed holds the value and the
\* timestamp of the last observation of that identity, the other entries
\* being as they were.
LastValueWins ==
    /\ \A e1, e2 \in acc : e1.id = e2.id => e1 = e2
    /\ lastOp.op = "consume" =>
          LET obs == BatchObservations(lastOp.batch) IN
          /\ \A n \in 1..Len(obs) :
                (\A later \in (n + 1)..Len(obs) : obs[later].id # obs[n].id) =>
                    \E e \in acc : /\ EntriesOf(acc, obs[n].id) = {e}
                                   /\ e.value = obs[n].value /\ e.ts = obs[n].ts
                                   /\ e.insertedAt = lastOp.at
          /\ \A e \in lastOp.before :
                (\A n \in 1..Len(obs) : obs[n].id # e.id) => e \in acc
          /\ \A e \in acc : e \in lastOp.before \/ \E n \in 1..Len(obs) : obs[n].id = e.id

\* an identity held with value 1 was accumulated again with value 2 and an
\* older timestamp: one entry of it is left, with value 2
LastValueWinsWitness ==
    /\ lastOp.op = "consume"
    /\ \E old \in lastOp.before, e \in acc :
          /\ old.id = e.id
          /\ old.value = Rat(1, 1) /\ e.value = Rat(2, 1) /\ e.ts < old.ts
          /\ EntriesOf(acc, e.id) = {e}

\* C9 as stated: CleanExpired deletes exactly the entries whose insertedAt +
\* TTL is at or before the time of the call and returns their number; an
\* entry not refreshed for longer than the TTL is absent from Collect; and
\* Collect returns an entry if and only if CleanExpired at that instant would
\* keep it.
ExpiryAsStated ==
    /\ lastOp.op = "cleanExpired" =>
          /\ acc = {e \in lastOp.before : ~(e.insertedAt + ttl <= lastOp.at)}
          /\ lastOp.count = Cardinality(lastOp.before \ acc)
    /\ lastOp.op = "collect" =>
          /\ \A e \in lastOp.before :
                lastOp.at - e.insertedAt > ttl => e \notin lastOp.snapshot
          /\ \A e \in lastOp.before :
                e \in lastOp.snapshot <=> ~(e.insertedAt + ttl <= lastOp.at)

\* C9 as amended: CleanExpired deletes exactly the entries whose insertedAt +
\* TTL is at or before the time of the call and returns their number; an
\* entry not refreshed for longer than the TTL is absent from Collect; and
\* Collect returns exactly the entries whose insertedAt + TTL is at or after
\* the time of the call: those CleanExpired would keep, and those that expire
\* at that very instant.
Expiry ==
    /\ lastOp.op = "cleanExpired" =>
          /\ acc = {e \in lastOp.before : ~(e.insertedAt + ttl <= lastOp.at)}
          /\ lastOp.count = Cardinality(lastOp.before \ acc)
    /\ lastOp.op = "collect" =>
          /\ \A e \in lastOp.before :
                lastOp.at - e.insertedAt > ttl => e \notin lastOp.snapshot
          /\ lastOp.snapshot = {e \in lastOp.before : e.insertedAt + ttl >= lastOp.at}
          /\ acc = lastOp.snapshot

\* a CleanExpired call deleted an entry at the very instant its TTL ended and
\* kept a fresher one
ExpiryWitness ==
    /\ lastOp.op = "cleanExpired"
    /\ lastOp.count = 1
    /\ \E e \in lastOp.before : e.insertedAt + ttl = lastOp.at /\ e \notin acc
    /\ acc # {}

\* the labels the filters of a cleanup are matched against
ResolvedLabels(e) ==
    [k \in (DOMAIN e.id.rattrs) \cup (DOMAIN e.id.pattrs) |->
        IF k \in DOMAIN e.id.pattrs THEN e.id.pattrs[k] ELSE e.id.rattrs[k]]

NamedResource(name, value) ==
    Resource(EmptyMap, <<ScopeWithAttrs("s1", EmptyMap,
                            <<Metric(name, "gauge", <<AccPoint(value, 7, EmptyMap)>>)>>)>>)

StoredNames == {<<"t">>, <<"x", "t">>, <<"x", "[", "t">>, <<"x", "^", "t">>}

NameBatches ==
    {<<NamedResource(name, 1)>> : name \in StoredNames} \cup {<<NamedResource(<<"t">>, 2)>>}

NamePatterns ==
    {<<"t">>, <<"^", "t">>, <<"[", "t">>, <<"x", ".", "t">>, <<"x", "t", "$">>, <<"z">>}

InitNames ==
    /\ acc = {} /\ lastOp = NoOp /\ now = 0
    /\ ttl \in TTLs
    /\ KeyIdle /\ ProcIdle /\ AuxIdle

NextNames ==
    \/ \E batch \in NameBatches : ConsumeMetricsCall(batch)
    \/ \E namePattern \in NamePatterns : CleanByMetricNameCall(namePattern)

SpecNames == InitNames /\ [][NextNames]_vars

\* C11 as stated: CleanByMetricName deletes exactly the entries whose name
\* contains the pattern literally or matches it as a regular expression,
\* leaves the others, returns the number deleted, and a second call with the
\* same pattern returns 0.
NameCleanupAsStated ==
    lastOp.op = "cleanByName" =>
        /\ acc = {e \in lastOp.before :
                     ~(\/ Contains(e.id.name, lastOp.pattern)
                       \/ RegexCompiles(lastOp.pattern)
                          /\ RegexMatch(lastOp.pattern, e.id.name))}
        /\ lastOp.count = Cardinality(lastOp.before \ acc)
        /\ CleanByMetricName(acc, lastOp.pattern).deleted = 0

\* C11 as amended: with a pattern that compiles as a regular expression,
\* CleanByMetricName deletes exactly the entries whose name contains the
\* pattern literally or matches it as a regular expression; with every
\* pattern it leaves the other entries in place, returns the number of
\* entries deleted, and a second call with the same pattern returns 0.
NameCleanup ==
    lastOp.op = "cleanByName" =>
        /\ RegexCompiles(lastOp.pattern) =>
              acc = {e \in lastOp.before :
                        ~(\/ Contains(e.id.name, lastOp.pattern)
                          \/ RegexMatch(lastOp.pattern, e.id.name))}
        /\ acc \subseteq lastOp.before
        /\ lastOp.count = Cardinality(lastOp.before \ acc)
        /\ CleanByMetricName(acc, lastOp.pattern).deleted = 0

\* the pattern ^t deleted the entry named t, which it matches, and the one
\* named x^t, which contains it, and kept the one named xt
NameCleanupWitness ==
    /\ lastOp.op = "cleanByName"
    /\ lastOp.pattern = <<"^", "t">>
    /\ lastOp.count = 2
    /\ \E e \in lastOp.before : e.id.name = <<"x", "^", "t">> /\ e \notin acc
    /\ \E e \in lastOp.before : e.id.name = <<"t">> /\ e \notin acc
    /\ \E e \in acc : e.id.name = <<"x", "t">>

\* C19: CleanByMetricName with a pattern that does not compile deletes no
\* entry and returns 0, also when a stored name contains the pattern text.
InvalidNamePattern ==
    (lastOp.op = "cleanByName" /\ ~RegexCompiles(lastOp.pattern)) =>
        /\ acc = lastOp.before
        /\ lastOp.count = 0

\* the pattern [t was called on a store that holds the name x[t
InvalidNamePatternWitness ==
    /\ lastOp.op = "cleanByName"
    /\ lastOp.pattern = <<"[", "t">>
    /\ \E e \in acc : Contains(e.id.name, lastOp.pattern)
    /\ lastOp.count = 0

\* the identities a batch observes
ObservedIds(batch) == {BatchObservations(batch)[n].id : n \in 1..Len(BatchObservations(batch))}

\* C14: an entry becomes present or is refreshed by an Accumulate only, and
\* becomes absent only by a cleanup whose predicate it matches, by
\* CleanExpired when it has expired, or by the eviction of an expired entry
\* during Collect; no call other than an Accumulate brings an entry back, so
\* a deleted entry is absent from every later Collect until its identity is
\* accumulated again.
EntryLifecycle ==
    /\ lastOp.op = "consume" =>
          /\ \A e \in lastOp.before : EntriesOf(acc, e.id) # {}
          /\ \A e \in acc \ lastOp.before : e.id \in ObservedIds(lastOp.batch)
          /\ \A id \in ObservedIds(lastOp.batch) : EntriesOf(acc, id) # {}
    /\ lastOp.op \in {"collect", "cleanExpired", "cleanByLabels", "cleanByName"} =>
          /\ acc \subseteq lastOp.before
          /\ lastOp.snapshot \subseteq lastOp.before
    /\ lastOp.op = "collect" =>
          /\ \A e \in lastOp.before \ acc : e.insertedAt + ttl < lastOp.at
          /\ lastOp.snapshot = acc
    /\ lastOp.op = "cleanExpired" =>
          \A e \in lastOp.before \ acc : e.insertedAt + ttl <= lastOp.at
    /\ lastOp.op = "cleanByLabels" =>
          \A e \in lastOp.before \ acc :
              \A k \in DOMAIN lastOp.filters :
                  k \in DOMAIN ResolvedLabels(e) /\ ResolvedLabels(e)[k] = lastOp.filters[k]
    /\ lastOp.op = "cleanByName" =>
          \A e \in lastOp.before \ acc :
              Contains(e.id.name, lastOp.pattern) \/ RegexMatch(lastOp.pattern, e.id.name)

\* a Collect evicted an expired entry and returned a fresh one
EntryLifecycleWitness ==
    /\ lastOp.op = "collect"
    /\ \E e \in lastOp.before : e \notin acc /\ e.insertedAt + ttl < lastOp.at
    /\ \E e \in lastOp.snapshot : e.insertedAt + ttl >= lastOp.at

(***************************************************************************)
(* Synthesized output and later rules                                      *)
(***************************************************************************)
\* the metrics of the batch whose name the rule selects
SelectedMetrics(batch, rule) ==
    SelectSeq(AllMetrics(batch), LAMBDA e : NameSelected(e.metric.name, rule))

\* every metric the rule selects sits in a resource that an earlier rule of
\* this call appended and that carries the marker attributes
SelectsOnlySynthesized(batch, rule) ==
    /\ Len(SelectedMetrics(batch, rule)) > 0
    /\ \A n \in 1..Len(SelectedMetrics(batch, rule)) :
          LET r == SelectedMetrics(batch, rule)[n].res IN
          /\ r \in Synthesized(batch)
          /\ ~LacksMarkers(batch[r].attrs, cfg.OutputResourceAttributes)

\* C15: a metric in a resource that carries the marker attributes, the
\* output of an earlier rule, is never aggregated again by a later rule of
\* the same call: a rule that selects only such metrics appends nothing.
NoReaggregation ==
    (/\ RuleApplied
     /\ cfg.OutputResourceAttributes # EmptyMap
     /\ SelectsOnlySynthesized(pre, LastRule)) => AppendedBy(pre, md) = {}

(***************************************************************************)
(* Group keys of two data points.  The first point is the one the key was  *)
(* built for; the second ranges over OtherPoints, among them a point with  *)
(* a value that holds the separators of the key.                           *)
(***************************************************************************)
SepValue == <<"x", "|", "b", "=", "y">>
OtherPoints ==
    [r : MapsOver(KeyLabels, KeyValues), p : MapsOver(KeyLabels, KeyValues \cup {SepValue})]

\* the grouping labels present for a point, and the value the point has for one
PresentSet(q, labelNames) ==
    {labelNames[n] : n \in 1..Len(labelNames)} \cap ((DOMAIN q.p) \cup (DOMAIN q.r))
ValueFor(q, l) == IF l \in DOMAIN q.p THEN q.p[l] ELSE q.r[l]

\* the points agree on every grouping label present for both
AgreeWherePresent(q1, q2, labelNames) ==
    \A l \in PresentSet(q1, labelNames) \cap PresentSet(q2, labelNames) :
        ValueFor(q1, l) = ValueFor(q2, l)

\* the same grouping labels are present for both points, with the same values
SameLabelling(q1, q2, labelNames) ==
    /\ PresentSet(q1, labelNames) = PresentSet(q2, labelNames)
    /\ \A l \in PresentSet(q1, labelNames) : ValueFor(q1, l) = ValueFor(q2, l)

\* no value of a present grouping label holds a separator of the key
SeparatorFree(q, labelNames) ==
    \A l \in PresentSet(q, labelNames) :
        \A n \in 1..Len(ValueFor(q, l)) : ValueFor(q, l)[n] \notin {"|", "="}

SameKey(q) == buildGroupKeyFromPresentAttributes(q.r, q.p, kIn.labels) = kOut.key
First == [r |-> kIn.r, p |-> kIn.p]

\* the statement as written: the same key exactly when the points agree on
\* the labels present for both
GroupKeyIffAsStated ==
    kOut.done =>
        \A q \in OtherPoints : SameKey(q) <=> AgreeWherePresent(First, q, kIn.labels)

\* C16: for a fixed grouping label list, two data points for which the same
\* grouping labels are present with the same values get the same group key;
\* and two data points with the same group key have the same grouping labels
\* present with the same values, provided no value holds `|` or `=`.
GroupKeyIff ==
    kOut.done =>
        \A q \in OtherPoints :
            /\ SameLabelling(First, q, kIn.labels) => SameKey(q)
            /\ (SeparatorFree(q, kIn.labels) /\ SameKey(q)) => SameLabelling(First, q, kIn.labels)

\* the key was built for a point with a from its own attributes and b from
\* its resource; a point that takes both from its resource has the same key,
\* a point with a alone agrees on every label present for both and has
\* another key, and a point whose value of a holds the separators has the
\* same key with another labelling
GroupKeyIffWitness ==
    /\ kOut.done
    /\ kIn.labels = <<LabelA, <<"b">>>>
    /\ kIn.p = Map1(LabelA, <<"x">>) /\ kIn.r = Map1(<<"b">>, <<"y">>)
    /\ \E q \in OtherPoints : q.p = EmptyMap /\ SameLabelling(First, q, kIn.labels) /\ SameKey(q)
    /\ \E q \in OtherPoints :
          /\ PresentSet(q, kIn.labels) = {LabelA}
          /\ AgreeWherePresent(First, q, kIn.labels) /\ ~SameKey(q)
    /\ \E q \in OtherPoints :
          /\ ~SeparatorFree(q, kIn.labels)
          /\ SameKey(q) /\ ~SameLabelling(First, q, kIn.labels)

(***************************************************************************)
(* Specification of the metric-name sanitization on its own: a configured  *)
(* output name is sanitized, and the result is sanitized once more.        *)
(***************************************************************************)
MaxNameLen == 3

\* a letter of each case, a digit, the two other characters a name may hold,
\* and two characters it may not hold
NameAlphabet == {"a", "Z", "9", "_", ":", "-", "."}

Sanitize ==
    /\ san.pass = 0
    /\ san' = [san EXCEPT !.out = sanitizeMetricName(san.name), !.pass = 1]
    /\ UNCHANGED <<kIn, kOut, now, procVars, accVars, vres, calls, resp>>

SanitizeAgain ==
    /\ san.pass = 1
    /\ san' = [san EXCEPT !.again = sanitizeMetricName(san.out), !.pass = 2]
    /\ UNCHANGED <<kIn, kOut, now, procVars, accVars, vres, calls, resp>>

InitSanitize ==
    /\ \E name \in SeqsOf(NameAlphabet, 0, MaxNameLen) :
          san = [name |-> name, out |-> <<>>, again |-> <<>>, pass |-> 0]
    /\ vres = NoResult /\ calls = <<>> /\ resp = NoResp
    /\ now = 0
    /\ KeyIdle /\ ProcIdle /\ AccIdle

NextSanitize == Sanitize \/ SanitizeAgain

SpecSanitize == InitSanitize /\ [][NextSanitize]_vars

\* the name matches [A-Za-z_:][A-Za-z0-9_:]*
IsMetricName(name) ==
    /\ Len(name) > 0
    /\ name[1] \in Letters \cup {"_", ":"}
    /\ \A i \in 1..Len(name) : name[i] \in Letters \cup Digits \cup {"_", ":"}

\* the name with every character outside [A-Za-z0-9_:] replaced by `_`
Replaced(name) ==
    [i \in 1..Len(name) |-> IF name[i] \in Letters \cup Digits \cup {"_", ":"} THEN name[i] ELSE "_"]

\* C18: the sanitized form of a non-empty name matches
\* [A-Za-z_:][A-Za-z0-9_:]*; it is the name with every other character
\* replaced by `_` and with `_` in front when the first character is then
\* not in [A-Za-z_:]; a name that matches already is unchanged, and
\* sanitizing the result again changes nothing.
SanitizedName ==
    (san.pass >= 1 /\ san.name # <<>>) =>
        /\ IsMetricName(san.out)
        /\ san.out = IF Replaced(san.name)[1] \in Letters \cup {"_", ":"}
                       THEN Replaced(san.name)
                       ELSE <<"_">> \o Replaced(san.name)
        /\ IsMetricName(san.name) => san.out = san.name
        /\ san.pass = 2 => san.again = san.out

\* the name 9-. was sanitized to _9__, and that form sanitized again
SanitizedNameWitness ==
    /\ san.pass = 2
    /\ san.name = <<"9", "-", ".">>
    /\ san.out = <<"_", "9", "_", "_">>
    /\ san.again = san.out

(***************************************************************************)
(* Configuration validation (Config.Validate)                              *)
(***************************************************************************)
ConfigError(kind) == [kind |-> kind, index |-> 0]
RuleError(kind, index) == [kind |-> kind, index |-> index]

\* a validation that checks the output name before the match type
validateAggregationRuleNameFirst(rule, index) ==
    LET matchType == IF rule.MatchType = "" THEN "strict" ELSE rule.MatchType
        aggregationType == IF rule.AggregationType = "" THEN "sum" ELSE rule.AggregationType
    IN  IF rule.MetricPattern = <<>> THEN RuleError("metric_pattern", index)
        ELSE IF rule.OutputMetricName = <<>> THEN RuleError("output_metric_name", index)
        ELSE IF matchType \notin {"strict", "regex"} THEN RuleError("match_type", index)
        ELSE IF matchType = "regex" /\ ~RegexCompiles(rule.MetricPattern)
          THEN RuleError("regex", index)
        ELSE IF aggregationType \notin {"sum", "mean", "min", "max", "count"}
          THEN RuleError("aggregation_type", index)
        ELSE IF rule.OutputMetricType # "" /\ rule.OutputMetricType \notin {"gauge", "sum", "histogram"}
          THEN RuleError("output_metric_type", index)
        ELSE Nil

\* a validation that does not compile the pattern of a regex rule
validateAggregationRuleNoCompile(rule, index) ==
    LET matchType == IF rule.MatchType = "" THEN "strict" ELSE rule.MatchType
        aggregationType == IF rule.AggregationType = "" THEN "sum" ELSE rule.AggregationType
    IN  IF rule.MetricPattern = <<>> THEN RuleError("metric_pattern", index)
        ELSE IF matchType \notin {"strict", "regex"} THEN RuleError("match_type", index)
        ELSE IF rule.OutputMetricName = <<>> THEN RuleError("output_metric_name", index)
        ELSE IF aggregationType \notin {"sum", "mean", "min", "max", "count"}
          THEN RuleError("aggregation_type", index)
        ELSE IF rule.OutputMetricType # "" /\ rule.OutputMetricType \notin {"gauge", "sum", "histogram"}
          THEN RuleError("output_metric_type", index)
        ELSE Nil

validateAggregationRule(rule, index) ==
    LET matchType == IF rule.MatchType = "" THEN "strict" ELSE rule.MatchType
        aggregationType == IF rule.AggregationType = "" THEN "sum" ELSE rule.AggregationType
    IN  IF rule.MetricPattern = <<>> THEN RuleError("metric_pattern", index)
        ELSE IF matchType \notin {"strict", "regex"} THEN RuleError("match_type", index)
        ELSE IF matchType = "regex" /\ ~RegexCompiles(rule.MetricPattern)
          THEN RuleError("regex", index)
        ELSE IF rule.OutputMetricName = <<>> THEN RuleError("output_metric_name", index)
        ELSE IF aggregationType \notin {"sum", "mean", "min", "max", "count"}
          THEN RuleError("aggregation_type", index)
        ELSE IF rule.OutputMetricType # "" /\ rule.OutputMetricType \notin {"gauge", "sum", "histogram"}
          THEN RuleError("output_metric_type", index)
        ELSE Nil

RECURSIVE ValidateRules(_, _)
\* the loop of Validate over the rules from position i on; the index passed
\* on is the one of the range loop, which starts at 0
ValidateRules(rules, i) ==
    IF i > Len(rules) THEN Nil
    ELSE LET err == validateAggregationRule(rules[i], i - 1)
         IN  IF err # Nil THEN err ELSE ValidateRules(rules, i + 1)

Validate(config) ==
    IF Len(config.GroupByLabels) = 0 THEN ConfigError("group_by_labels")
    ELSE IF config.OutputResourceAttributes = EmptyMap THEN ConfigError("output_resource_attributes")
    ELSE IF Len(config.AggregationRules) = 0 THEN ConfigError("aggregation_rules")
    ELSE ValidateRules(config.AggregationRules, 1)

ValidateCall ==
    /\ ~vres.called
    /\ vres' = [called |-> TRUE, err |-> Validate(cfg)]
    /\ UNCHANGED <<kIn, kOut, now, procVars, accVars, san, calls, resp>>

\* rules for validation: one with every field set and valid, one with every
\* default, a strict rule whose pattern is no regular expression, one rule
\* per invalid field, and one rule with three invalid fields
ValidationRules ==
    {Rule(NameT, "regex", NameO, "mean", TRUE, "sum"),
     Rule(NameT, "", NameO, "", FALSE, ""),
     Rule(<<"[", "t">>, "strict", NameO, "count", FALSE, "histogram"),
     Rule(<<>>, "strict", NameO, "sum", FALSE, "gauge"),
     Rule(NameT, "glob", NameO, "sum", FALSE, "gauge"),
     Rule(<<"[", "t">>, "regex", NameO, "min", FALSE, "gauge"),
     Rule(NameT, "strict", <<>>, "max", FALSE, "gauge"),
     Rule(NameT, "strict", NameO, "median", FALSE, "gauge"),
     Rule(NameT, "strict", NameO, "sum", FALSE, "summary"),
     Rule(NameT, "glob", <<>>, "median", FALSE, "summary")}

InitValidate ==
    /\ \E groupByLabels \in {<<>>, <<LabelA>>},
          markerAttrs \in {EmptyMap, Map1(MarkerM, <<"1">>)},
          rules \in SeqsOf(ValidationRules, 0, MaxRules) :
          cfg = Config(groupByLabels, markerAttrs, rules)
    /\ md = <<>> /\ input = <<>> /\ pre = <<>> /\ applied = <<>>
    /\ ruleIdx = 1 /\ pc = "idle" /\ ret = [md |-> <<>>, err |-> "none"]
    /\ vres = NoResult
    /\ san = [name |-> <<>>, out |-> <<>>, again |-> <<>>, pass |-> 0]
    /\ calls = <<>> /\ resp = NoResp
    /\ now = 0
    /\ KeyIdle /\ AccIdle

NextValidate == ValidateCall

SpecValidate == InitValidate /\ [][NextValidate]_vars

\* the checks a rule fails, numbered in the order of the statement
RuleFaults(rule) ==
    {n \in 1..6 :
        \/ n = 1 /\ rule.MetricPattern = <<>>
        \/ n = 2 /\ rule.MatchType \notin {"strict", "regex", ""}
        \/ n = 3 /\ rule.MatchType = "regex" /\ ~RegexCompiles(rule.MetricPattern)
        \/ n = 4 /\ rule.OutputMetricName = <<>>
        \/ n = 5 /\ rule.AggregationType \notin {"sum", "mean", "min", "max", "count", ""}
        \/ n = 6 /\ rule.OutputMetricType \notin {"gauge", "sum", "histogram", ""}}

FaultKind(n) ==
    <<"metric_pattern", "match_type", "regex", "output_metric_name",
      "aggregation_type", "output_metric_type">>[n]

\* the positions of the rules that fail a check
FaultyRules(config) ==
    {i \in 1..Len(config.AggregationRules) : RuleFaults(config.AggregationRules[i]) # {}}

Least(S) == CHOOSE n \in S : \A k \in S : n <= k

writeErrorResponse(store, statusCode) ==
    [store |-> store, status |-> statusCode, success |-> FALSE, deleted |-> 0]

\* the response after the switch: Success true with the count of the operation
writeResponse(r) ==
    [store |-> r.store, status |-> 200, success |-> TRUE, deleted |-> r.deleted]

\* a handler that calls CleanByLabels whatever the filters are
CleanupHandlerUnguarded(store, ttlv, clock, req) ==
    IF req.method # "POST" THEN writeErrorResponse(store, 405)
    ELSE IF ~req.decodes THEN writeErrorResponse(store, 400)
    ELSE IF req.Type = "labels" THEN writeResponse(CleanByLabels(store, req.Filters))
    ELSE IF req.Type = "name" THEN
        IF req.Pattern = <<>> THEN writeErrorResponse(store, 400)
        ELSE writeResponse(CleanByMetricName(store, req.Pattern))
    ELSE IF req.Type = "expired" THEN writeResponse(CleanExpired(store, ttlv, clock))
    ELSE writeErrorResponse(store, 400)

CleanupHandler(store, ttlv, clock, req) ==
    IF req.method # "POST" THEN writeErrorResponse(store, 405)
    ELSE IF ~req.decodes THEN writeErrorResponse(store, 400)
    ELSE IF req.Type = "labels" THEN
        IF Cardinality(DOMAIN req.Filters) = 0 THEN writeErrorResponse(store, 400)
        ELSE writeResponse(CleanByLabels(store, req.Filters))
    ELSE IF req.Type = "name" THEN
        IF req.Pattern = <<>> THEN writeErrorResponse(store, 400)
        ELSE writeResponse(CleanByMetricName(store, req.Pattern))
    ELSE IF req.Type = "expired" THEN writeResponse(CleanExpired(store, ttlv, clock))
    ELSE writeErrorResponse(store, 400)

\* the handler serves a request and writes the response
CleanupHandlerCall(req) ==
    LET r == CleanupHandler(acc, ttl, now, req) IN
    /\ resp.status = 0
    /\ acc' = r.store
    /\ resp' = [req |-> req, status |-> r.status, success |-> r.success,
                deleted |-> r.deleted, before |-> acc, after |-> r.store]
    /\ UNCHANGED <<ttl, lastOp, now, keyVars, procVars, san, vres, calls>>

\* the response has gone to the client
Deliver ==
    /\ resp.status # 0
    /\ resp' = NoResp
    /\ UNCHANGED <<accVars, now, keyVars, procVars, san, vres, calls>>

\* requests: another method with a valid body, a body that does not decode,
\* each type with and without its argument, and types the switch does not know
ApiRequests ==
    {Request("GET", TRUE, "expired", EmptyMap, <<>>),
     Request("GET", TRUE, "labels", Map1(JobJ, <<"X">>), <<>>),
     Request("POST", FALSE, "", EmptyMap, <<>>),
     Request("POST", TRUE, "labels", EmptyMap, NameG),
     Request("POST", TRUE, "labels", Map1(JobJ, <<"X">>), <<>>),
     Request("POST", TRUE, "labels", Map2(JobJ, <<"Y">>, SvcS, <<"W">>), <<>>),
     Request("POST", TRUE, "name", Map1(JobJ, <<"X">>), <<>>),
     Request("POST", TRUE, "name", EmptyMap, NameG),
     Request("POST", TRUE, "name", EmptyMap, <<"[", "g">>),
     Request("POST", TRUE, "expired", EmptyMap, <<>>),
     Request("POST", TRUE, "", Map1(JobJ, <<"X">>), NameG),
     Request("POST", TRUE, "all", Map1(JobJ, <<"X">>), NameG)}

ApiBatches == {<<ResA(1, 7)>>, <<ResB(1, 7), ResC(1, 7)>>}

InitApi ==
    /\ acc = {} /\ lastOp = NoOp /\ now = 0
    /\ ttl \in TTLs
    /\ KeyIdle /\ ProcIdle /\ AuxIdle

\* between two requests the exporter consumes batches and time passes
NextApi ==
    \/ \E batch \in ApiBatches : resp.status = 0 /\ ConsumeMetricsCall(batch)
    \/ \E req \in ApiRequests : CleanupHandlerCall(req)
    \/ Deliver
    \/ resp.status = 0 /\ Tick

SpecApi == InitApi /\ [][NextApi]_vars

\* the request is one the statement lets delete entries
Deleting(req) ==
    /\ req.method = "POST" /\ req.decodes
    /\ \/ req.Type = "labels" /\ req.Filters # EmptyMap
       \/ req.Type = "name" /\ req.Pattern # <<>>
       \/ req.Type = "expired"

\* what the cleanup operation of the request does to the store
Operation(req, store, ttlv, clock) ==
    IF req.Type = "labels" THEN CleanByLabels(store, req.Filters)
    ELSE IF req.Type = "name" THEN CleanByMetricName(store, req.Pattern)
    ELSE CleanExpired(store, ttlv, clock)

\* C20: CleanupHandler deletes only for a POST request whose body decodes
\* to type labels with a filter, type name with a pattern, or type expired;
\* any other request gets 405 (method) or 400 with success false and the
\* Accumulator as it was; a successful request gets 200, success true and
\* the count its cleanup operation returned.
ApiContract ==
    resp.status # 0 =>
        /\ ~Deleting(resp.req) =>
              /\ resp.status = IF resp.req.method # "POST" THEN 405 ELSE 400
              /\ ~resp.success
              /\ resp.after = resp.before
        /\ Deleting(resp.req) =>
              /\ resp.status = 200 /\ resp.success
              /\ resp.after = Operation(resp.req, resp.before, ttl, now).store
              /\ resp.deleted = Operation(resp.req, resp.before, ttl, now).deleted
              /\ resp.deleted = Cardinality(resp.before \ resp.after)

\* a POST of type labels with the filter j=X answered 200 with a count of at
\* least one, on a store that held an entry the filter does not match
ApiWitness ==
    /\ resp.status = 200 /\ resp.success
    /\ resp.req.Type = "labels" /\ resp.req.Filters = Map1(JobJ, <<"X">>)
    /\ resp.deleted >= 1
    /\ resp.after # {}
    /\ acc = resp.after

(***************************************************************************)
(* Concurrent calls on the Accumulator.  The store is a concurrent map     *)
(* with per-key atomicity: an upsert and a delete of one key are single    *)
(* steps.  A cleanup and the eviction of Collect iterate a stable view of  *)
(* the keys, evaluate each entry's current value, and delete the matching  *)
(* key in a later step; the count is of the entries the call removed.      *)
(***************************************************************************)
Call(kind, batch, filters, pattern) ==
    [kind |-> kind, batch |-> batch, filters |-> filters, pattern |-> pattern,
     phase |-> "new", clock |-> 0, keys |-> {}, pending |-> {}, put |-> 0,
     count |-> 0, removed |-> {}, hit |-> {}, snapshot |-> {}, wrote |-> {}, after |-> {}]

AccumulateOf(batch)    == Call("accumulate", batch, EmptyMap, <<>>)
CleanByLabelsOf(f)     == Call("cleanByLabels", <<>>, f, <<>>)
CleanByMetricNameOf(p) == Call("cleanByName", <<>>, EmptyMap, p)
CleanExpiredOf         == Call("cleanExpired", <<>>, EmptyMap, <<>>)
CollectOf              == Call("collect", <<>>, EmptyMap, <<>>)

\* the observations of a batch, resource after resource
ObservationsOfBatch(batch, clock) ==
    Flatten([i \in 1..Len(batch) |-> Observations(batch[i], clock)])

\* the predicate a call evaluates on the current value of an entry
CallMatches(c, entry, ttlv) ==
    IF c.kind = "cleanByLabels" THEN matchesLabelFilters(entry, c.filters)
    ELSE IF c.kind = "cleanByName" THEN matchesNamePattern(entry, c.pattern)
    ELSE IF c.kind = "cleanExpired" THEN entry.insertedAt + ttlv <= c.clock
    ELSE Expired(entry, ttlv, c.clock)

\* a delete that reports a removal whether or not the key was there
deleteKeyCounted(store, id) ==
    [store |-> {e \in store : e.id # id}, gone |-> EntriesOf(store, id), deleted |-> 1]

\* the atomic delete of one key: what it removed, and whether it removed
deleteKey(store, id) ==
    [store |-> {e \in store : e.id # id}, gone |-> EntriesOf(store, id),
     deleted |-> IF EntriesOf(store, id) = {} THEN 0 ELSE 1]

\* the call starts: a cleanup or a Collect takes the time and the view of keys
Begin(i) ==
    /\ calls[i].phase = "new"
    /\ calls' = [calls EXCEPT ![i] =
          [@ EXCEPT !.phase = "run", !.clock = now,
                    !.keys = IF calls[i].kind = "accumulate"
                                \/ (calls[i].kind = "cleanByName" /\ ~RegexCompiles(calls[i].pattern))
                             THEN {} ELSE {e.id : e \in acc},
                    !.after = {j \in 1..Len(calls) : calls[j].phase = "done"}]]
    /\ UNCHANGED <<accVars, now, keyVars, procVars, san, vres, resp>>

\* an Accumulate upserts its next observation
Put(i) ==
    /\ calls[i].phase = "run" /\ calls[i].kind = "accumulate"
    /\ calls[i].put < Len(ObservationsOfBatch(calls[i].batch, now))
    /\ LET entry == ObservationsOfBatch(calls[i].batch, now)[calls[i].put + 1] IN
       /\ acc' = Upsert(acc, entry)
       /\ calls' = [calls EXCEPT ![i] = [@ EXCEPT !.put = @ + 1, !.wrote = @ \cup {entry}]]
    /\ UNCHANGED <<ttl, lastOp, now, keyVars, procVars, san, vres, resp>>

\* a cleanup or a Collect evaluates the current value of the next key
Evaluate(i, id) ==
    /\ calls[i].phase = "run" /\ calls[i].pending = {}
    /\ id \in calls[i].keys
    /\ LET cur == EntriesOf(acc, id)
           match == \E e \in cur : CallMatches(calls[i], e, ttl)
       IN  calls' = [calls EXCEPT ![i] =
              [@ EXCEPT !.keys = @ \ {id},
                        !.pending = IF match THEN {id} ELSE {},
                        !.hit = IF match THEN @ \cup {id} ELSE @,
                        !.snapshot = IF calls[i].kind = "collect" /\ ~match THEN @ \cup cur ELSE @]]
    /\ UNCHANGED <<accVars, now, keyVars, procVars, san, vres, resp>>

\* it deletes the key it found matching
Delete(i) ==
    /\ calls[i].phase = "run" /\ calls[i].pending # {}
    /\ \E id \in calls[i].pending :
          LET r == deleteKey(acc, id) IN
          /\ acc' = r.store
          /\ calls' = [calls EXCEPT ![i] =
                [@ EXCEPT !.pending = {}, !.count = @ + r.deleted, !.removed = @ \cup r.gone]]
    /\ UNCHANGED <<ttl, lastOp, now, keyVars, procVars, san, vres, resp>>

\* the call returns
ReturnCall(i) ==
    /\ calls[i].phase = "run" /\ calls[i].pending = {} /\ calls[i].keys = {}
    /\ calls[i].kind = "accumulate" =>
          calls[i].put = Len(ObservationsOfBatch(calls[i].batch, now))
    /\ calls' = [calls EXCEPT ![i] = [@ EXCEPT !.phase = "done"]]
    /\ UNCHANGED <<accVars, now, keyVars, procVars, san, vres, resp>>

TickConc ==
    /\ now < MaxTime
    /\ now' = now + 1
    /\ UNCHANGED <<accVars, calls, keyVars, procVars, san, vres, resp>>

\* the store the calls start on: two identities, both with the label j=X
ConcStart == <<ResA(1, 7), ResB(1, 7)>>

\* the calls that run concurrently
ConcPrograms ==
    {<<CleanByLabelsOf(Map1(JobJ, <<"X">>)), CleanByLabelsOf(Map1(JobJ, <<"X">>))>>,
     <<CleanByLabelsOf(Map1(JobJ, <<"X">>)), CleanByMetricNameOf(NameG)>>,
     <<CleanByMetricNameOf(NameG), CleanExpiredOf>>,
     <<CollectOf, CleanExpiredOf>>,
     <<AccumulateOf(<<ResA(2, 8)>>), CleanExpiredOf>>,
     <<AccumulateOf(<<ResA(2, 8)>>), CollectOf>>,
     <<AccumulateOf(<<ResA(2, 8)>>), AccumulateOf(<<ResA(3, 3)>>)>>,
     <<AccumulateOf(<<ResA(2, 8)>>), CleanByLabelsOf(Map1(JobJ, <<"Y">>))>>,
     <<AccumulateOf(<<ResA(2, 8)>>), CleanByLabelsOf(Map1(JobJ, <<"X">>))>>}

InitConc ==
    /\ calls \in ConcPrograms
    /\ acc = ConsumeMetrics({}, ConcStart, 0).store
    /\ lastOp = [NoOp EXCEPT !.op = "consume", !.batch = ConcStart]
    /\ ttl = 1
    /\ now = 0
    /\ san = [name |-> <<>>, out |-> <<>>, again |-> <<>>, pass |-> 0]
    /\ vres = NoResult /\ resp = NoResp
    /\ KeyIdle /\ ProcIdle

NextConc ==
    \/ \E i \in 1..Len(calls) : Begin(i)
    \/ \E i \in 1..Len(calls) : Put(i)
    \/ \E i \in 1..Len(calls) : \E id \in calls[i].keys : Evaluate(i, id)
    \/ \E i \in 1..Len(calls) : Delete(i)
    \/ \E i \in 1..Len(calls) : ReturnCall(i)
    \/ TickConc

SpecConc == InitConc /\ [][NextConc]_vars

\* views of the concurrent calls
AllReturned == \A i \in 1..Len(calls) : calls[i].phase = "done"
Cleanups == {i \in 1..Len(calls) : calls[i].kind \in {"cleanByLabels", "cleanByName", "cleanExpired"}}
Accumulates == {i \in 1..Len(calls) : calls[i].kind = "accumulate"}
StartStore == ConsumeMetrics({}, ConcStart, 0).store

RECURSIVE SumCounts(_)
\* the counts the calls of S returned, added up
SumCounts(S) ==
    IF S = {} THEN 0
    ELSE LET i == CHOOSE i \in S : TRUE IN calls[i].count + SumCounts(S \ {i})

RECURSIVE SumRemoved(_)
\* the number of removals the calls of S made
SumRemoved(S) ==
    IF S = {} THEN 0
    ELSE LET i == CHOOSE i \in S : TRUE IN Cardinality(calls[i].removed) + SumRemoved(S \ {i})

\* C12: each removed entry is counted by exactly one of the concurrent
\* cleanup calls: the count of a call is the number of entries it removed,
\* so the counts add up to the number of removals; among cleanup calls alone
\* no entry is removed by two of them, and once they have returned the
\* counts add up to the number of entries that are gone from the store.
CountsAddUp ==
    /\ \A i \in Cleanups : calls[i].count = Cardinality(calls[i].removed)
    /\ SumCounts(Cleanups) = SumRemoved(Cleanups)
    /\ Cleanups = 1..Len(calls) =>
          /\ \A i, j \in Cleanups : i # j => calls[i].removed \cap calls[j].removed = {}
          /\ acc \subseteq StartStore
          /\ AllReturned => SumCounts(Cleanups) = Cardinality(StartStore \ acc)

\* a CleanByMetricName and a CleanExpired found the same two entries
\* matching; each entry was removed and counted by one of the calls, and
\* each call found an entry matching that it did not count
CountsAddUpWitness ==
    /\ AllReturned
    /\ Len(calls) = 2 /\ Cleanups = {1, 2}
    /\ calls[1].kind = "cleanByName" /\ calls[2].kind = "cleanExpired"
    /\ \A i \in Cleanups : Cardinality(calls[i].hit) = 2
    /\ acc = {}
    /\ calls[1].count = 1 /\ calls[2].count = 1

\* the Accumulate calls that wrote the identity, and the entries written for
\* it, those of the starting store included
Writers(id) == {j \in Accumulates : \E w \in calls[j].wrote : w.id = id}
Writes(id) ==
    {e \in StartStore : e.id = id}
        \cup {w \in UNION {calls[j].wrote : j \in Accumulates} : w.id = id}
AccumulatedIds == {e.id : e \in StartStore \cup UNION {calls[j].wrote : j \in Accumulates}}

\* a label or name cleanup among the calls matches the identity
MatchedByCleanup(id) ==
    \E i \in Cleanups :
        /\ calls[i].kind \in {"cleanByLabels", "cleanByName"}
        /\ \E w \in Writes(id) : CallMatches(calls[i], w, ttl)

\* the identity was accumulated less than the TTL ago
NotExpired(id) == \E w \in Writes(id) : w.insertedAt + ttl > now

\* the entry is one written for the identity: the one of the last Accumulate
\* when the Accumulate calls of the identity did not overlap
HoldsAWrite(id, e) ==
    /\ e \in Writes(id)
    /\ Writers(id) = {} => e \in StartStore
    /\ \A j \in Writers(id) :
          (\A k \in Writers(id) \ {j} : k \in calls[j].after) => e \in calls[j].wrote

\* the statement as written: every identity that no cleanup matches and that
\* has not expired is present once all calls have returned
NoLostUpdateAsStated ==
    /\ \A e1, e2 \in acc : e1.id = e2.id => e1 = e2
    /\ AllReturned =>
          \A id \in AccumulatedIds :
              (~MatchedByCleanup(id) /\ NotExpired(id)) =>
                  \E e \in acc : e.id = id /\ HoldsAWrite(id, e)

\* every call that found the identity matching or expired had returned
\* before an Accumulate of the identity began
Undisturbed(id) ==
    \A i \in 1..Len(calls) :
        id \in calls[i].hit => \E j \in Writers(id) : i \in calls[j].after

\* C13: under every interleaving of Accumulate, Collect and cleanup calls no
\* identity has more than one entry, and once all calls have returned every
\* accumulated identity is present with the value of one of its Accumulate
\* calls (the last one when they did not overlap), unless a cleanup or a
\* Collect found an entry of it matching or expired and no Accumulate of the
\* identity began after that call returned.
NoLostUpdate ==
    /\ \A e1, e2 \in acc : e1.id = e2.id => e1 = e2
    /\ AllReturned =>
          \A id \in AccumulatedIds :
              Undisturbed(id) => \E e \in acc : e.id = id /\ HoldsAWrite(id, e)

\* an Accumulate and a CleanExpired overlapped; the CleanExpired removed the
\* expired entry of another identity, and the identity accumulated in the
\* meantime is present with the value accumulated
NoLostUpdateWitness ==
    /\ AllReturned
    /\ Len(calls) = 2
    /\ calls[1].kind = "accumulate" /\ calls[2].kind = "cleanExpired"
    /\ 2 \notin calls[1].after /\ 1 \notin calls[2].after
    /\ calls[2].count = 1
    /\ \E e \in acc : e \in calls[1].wrote /\ e.value = Rat(2, 1) /\ e.id \notin calls[2].hit
    /\ Cardinality(acc) = 1

(***************************************************************************)
(* Specification of one rule over groups of source points with every       *)
(* combination of start timestamp and timestamp (SpecTime).  All points    *)
(* fall into one group; the clock stands at 5 and a minute is 2.           *)
(***************************************************************************)
\* a source point of value 1 of a metric of the type
TimePoint(type, start, ts) ==
    IF type = "histogram" THEN HistPoint(Rat(1, 1), 1, ts, start, EmptyMap)
    ELSE NumberPoint("double", Rat(1, 1), 0, ts, start, EmptyMap)

\* one metric with one point per type, start timestamp and timestamp
TimeSources ==
    {Metric(NameT, type, <<TimePoint(type, start, ts)>>) :
        type \in {"gauge", "sum", "histogram"}, start \in 0..MaxTime, ts \in 0..MaxTime}

\* one or two sources in one scope of one resource
TimeBatches ==
    {<<Resource(EmptyMap, <<Scope("s1", metrics)>>)>> :
        metrics \in {<<m>> : m \in TimeSources} \cup (TimeSources \X TimeSources)}

InitTime ==
    /\ \E outputType \in {"", "sum", "histogram"}, batch \in TimeBatches :
          ProcCalled(Config(<<LabelA>>, Map1(MarkerM, <<"1">>),
                            <<Rule(NameT, "strict", NameO, "sum", TRUE, outputType)>>), batch)
    /\ now = 5
    /\ KeyIdle /\ AccIdle /\ AuxIdle

SpecTime == InitTime /\ [][NextProc]_vars

\* what the statement reads of a source point as its start: the start
\* timestamp of a sum or histogram point, the timestamp of a gauge point
StartRead(pt) == IF pt.type = "gauge" THEN pt.dp.ts ELSE pt.dp.start

\* C24: the timestamp of a synthesized data point is the largest timestamp
\* of the group's source points, or the current time when all are zero; for
\* sum output the start timestamp is the smallest non-zero start timestamp
\* (sum and histogram sources) or timestamp (gauge sources) of the group, or
\* one minute before the current time when there is none.
OutputTimestamps ==
    RuleApplied =>
        LET pts == RulePoints(pre, LastRule)
            tss == {pts[n].dp.ts : n \in 1..Len(pts)}
            starts == {StartRead(pts[n]) : n \in 1..Len(pts)} \ {0}
        IN  \A r \in AppendedBy(pre, md) :
                /\ \/ tss = {0} /\ OutPoint(md[r]).ts = now
                   \/ /\ OutPoint(md[r]).ts \in tss \ {0}
                      /\ \A t \in tss : t <= OutPoint(md[r]).ts
                /\ LastRule.OutputMetricType = "sum" =>
                      \/ starts = {} /\ OutPoint(md[r]).start = now - Minute
                      \/ /\ OutPoint(md[r]).start \in starts
                         /\ \A t \in starts : OutPoint(md[r]).start <= t

\* a sum output over a gauge point with timestamp 2 and a sum point with
\* start 1 and timestamp 0: the timestamp is 2 and the start timestamp 1
OutputTimestampsWitness ==
    /\ RuleApplied
    /\ LastRule.OutputMetricType = "sum"
    /\ Len(RulePoints(pre, LastRule)) = 2
    /\ RulePoints(pre, LastRule)[1].type = "gauge" /\ RulePoints(pre, LastRule)[1].dp.ts = 2
    /\ RulePoints(pre, LastRule)[2].type = "sum"
    /\ RulePoints(pre, LastRule)[2].dp.start = 1 /\ RulePoints(pre, LastRule)[2].dp.ts = 0
    /\ \E r \in AppendedBy(pre, md) : OutPoint(md[r]).ts = 2 /\ OutPoint(md[r]).start = 1

\* C29: a data point synthesized with sum output shape has a start
\* timestamp not later than its timestamp, whenever every source point of its
\* group has its own start timestamp not later than its timestamp.
StartNotAfterTimestamp ==
    (/\ RuleApplied
     /\ LastRule.OutputMetricType = "sum"
     /\ \A n \in 1..Len(RulePoints(pre, LastRule)) :
           RulePoints(pre, LastRule)[n].dp.start <= RulePoints(pre, LastRule)[n].dp.ts) =>
        \A r \in AppendedBy(pre, md) : OutPoint(md[r]).start <= OutPoint(md[r]).ts

(***************************************************************************)
(* Histogram output                                                        *)
(***************************************************************************)
\* the data points of the rule's group with these labels, and their values
MembersOf(batch, rule, labels) ==
    SelectSeq(RulePoints(batch, rule), LAMBDA pt : LabelsOfPoint(pt, cfg.GroupByLabels) = labels)
MemberValues(batch, rule, labels) ==
    Flatten([n \in 1..Len(MembersOf(batch, rule, labels)) |->
                ValueOfPoint(MembersOf(batch, rule, labels)[n])])

\* C25: for histogram output the sum field of the synthesized point is the
\* aggregate of the members' extracted values, a histogram member
\* contributing its sum field, and the count field is the number of data
\* points of the group, not the total of the members' counts.
HistogramOutput ==
    (RuleApplied /\ LastRule.OutputMetricType = "histogram") =>
        \A r \in AppendedBy(pre, md) :
            LET labels == OutLabels(md[r], cfg.OutputResourceAttributes)
                values == MemberValues(pre, LastRule, labels)
            IN  /\ md[r].scopes[1].metrics[1].type = "histogram"
                /\ OutPoint(md[r]).vt = "hist"
                /\ OutPoint(md[r]).count = Len(MembersOf(pre, LastRule, labels))
                /\ IF Len(values) = 0 THEN OutPoint(md[r]).sum = RZero
                   ELSE IsAggregate(OutPoint(md[r]).sum, values, LastRule.AggregationType)

\* two histogram points with sums 150 and 200 and counts 10 and 15 make a
\* group of their own: the output has sum 350 and count 2
HistogramOutputWitness ==
    /\ RuleApplied
    /\ LastRule.OutputMetricType = "histogram" /\ LastRule.AggregationType = "sum"
    /\ \E r \in AppendedBy(pre, md) :
          LET members == MembersOf(pre, LastRule, OutLabels(md[r], cfg.OutputResourceAttributes)) IN
          /\ Len(members) = 2
          /\ members[1].dp.sum = Rat(150, 1) /\ members[1].dp.count = 10
          /\ members[2].dp.sum = Rat(200, 1) /\ members[2].dp.count = 15
          /\ OutPoint(md[r]).sum = Rat(350, 1)
          /\ OutPoint(md[r]).count = 2

(***************************************************************************)
(* Aggregation fallbacks                                                   *)
(***************************************************************************)
KnownAggregationTypes == {"sum", "mean", "min", "max", "count", ""}

\* C26: a rule whose aggregation type is not sum, mean, min, max, count or
\* empty still appends one well formed output per group, with value 0, and
\* keeps or removes the originals as preserveOriginals says; and a group
\* from which no value can be extracted gives value 0 whatever the
\* aggregation type.
ZeroFallback ==
    RuleApplied =>
        LET pts == RulePoints(pre, LastRule) IN
        /\ (LastRule.AggregationType \notin KnownAggregationTypes /\ Len(pts) > 0) =>
              /\ Cardinality(AppendedBy(pre, md)) = Cardinality(KeysOf(pts, cfg.GroupByLabels))
              /\ \A r \in AppendedBy(pre, md) :
                    WellFormedOutput(md[r], LastRule) /\ OutValue(md[r]) = RZero
              /\ IF LastRule.PreserveOriginalMetrics
                   THEN AllKept(pre, md)
                   ELSE Len(SelectedOriginals(md, LastRule, cfg.OutputResourceAttributes)) = 0
        /\ \A r \in AppendedBy(pre, md) :
              Len(MemberValues(pre, LastRule,
                               OutLabels(md[r], cfg.OutputResourceAttributes))) = 0
                  => OutValue(md[r]) = RZero

\* a median rule that does not preserve, on two groups that hold values: two
\* outputs of value 0 and the originals gone
ZeroFallbackWitness ==
    /\ RuleApplied
    /\ LastRule.AggregationType = "median" /\ ~LastRule.PreserveOriginalMetrics
    /\ Cardinality(AppendedBy(pre, md)) = 2
    /\ \A r \in AppendedBy(pre, md) :
          /\ Len(MemberValues(pre, LastRule,
                              OutLabels(md[r], cfg.OutputResourceAttributes))) > 0
          /\ OutValue(md[r]) = RZero
    /\ Len(SelectedOriginals(pre, LastRule, cfg.OutputResourceAttributes)) = 2
    /\ Len(SelectedOriginals(md, LastRule, cfg.OutputResourceAttributes)) = 0

\* a group of one data point without a value under a min rule: value 0
NoValueGroup ==
    /\ RuleApplied
    /\ LastRule.AggregationType = "min"
    /\ \E r \in AppendedBy(pre, md) :
          /\ Len(MembersOf(pre, LastRule, OutLabels(md[r], cfg.OutputResourceAttributes))) = 1
          /\ Len(MemberValues(pre, LastRule,
                              OutLabels(md[r], cfg.OutputResourceAttributes))) = 0
          /\ OutValue(md[r]) = RZero

(***************************************************************************)
(* Every data point in one group                                           *)
(***************************************************************************)
\* the appended resources in batch order, and the values of all rule points
AppendedSeq(before, after) == [k \in 1..(Len(after) - Len(before)) |-> after[Len(before) + k]]
AllValues(batch, rule) ==
    Flatten([n \in 1..Len(RulePoints(batch, rule)) |-> ValueOfPoint(RulePoints(batch, rule)[n])])

RECURSIVE CountTotal(_)
CountTotal(outs) == IF Len(outs) = 0 THEN 0 ELSE OutPoint(Head(outs)).count + CountTotal(Tail(outs))

\* C22: every data point of a matching gauge, sum or histogram metric is in
\* exactly one group, the group of its own key: exactly one output carries its
\* labels, under sum aggregation the output values add up to the sum of the
\* values of all matching data points, and with histogram output the group
\* sizes add up to the number of matching data points.
OnePointOneGroup ==
    RuleApplied =>
        LET pts == RulePoints(pre, LastRule)
            outs == AppendedSeq(pre, md)
        IN  /\ \A n \in 1..Len(pts) :
                  Cardinality({k \in 1..Len(outs) :
                      OutLabels(outs[k], cfg.OutputResourceAttributes)
                          = LabelsOfPoint(pts[n], cfg.GroupByLabels)}) = 1
            /\ LastRule.AggregationType \in {"sum", ""} =>
                  RatSum([k \in 1..Len(outs) |-> OutValue(outs[k])]) = RatSum(AllValues(pre, LastRule))
            /\ LastRule.OutputMetricType = "histogram" => CountTotal(outs) = Len(pts)

\* two data points of one metric in different groups, one of them joined by a
\* data point of another resource: sizes 1 and 2, values adding up
OnePointOneGroupWitness ==
    /\ RuleApplied
    /\ LastRule.AggregationType = "sum" /\ LastRule.OutputMetricType = "histogram"
    /\ Len(pre) = 2 /\ Len(pre[1].scopes[1].metrics[1].dps) = 2
    /\ Len(RulePoints(pre, LastRule)) = 3
    /\ Len(AppendedSeq(pre, md)) = 2
    /\ {OutPoint(md[r]).count : r \in AppendedBy(pre, md)} = {1, 2}
    /\ RatSum(AllValues(pre, LastRule)) # RZero
    /\ LabelsOfPoint(RulePoints(pre, LastRule)[1], cfg.GroupByLabels)
          # LabelsOfPoint(RulePoints(pre, LastRule)[2], cfg.GroupByLabels)

(***************************************************************************)
(* Where the labels of a group go                                          *)
(***************************************************************************)
\* the first data point, in scan order, of the group with this key
FirstMember(batch, rule, key) ==
    LET mine == SelectSeq(RulePoints(batch, rule),
                    LAMBDA pt : ExpectedGroupKey(pt.rattrs, pt.dp.attrs, cfg.GroupByLabels) = key)
    IN  mine[1]

\* the label is on the resource with the value and not on the data point
OnResource(res, l, v) ==
    /\ l \in DOMAIN res.attrs /\ res.attrs[l] = v
    /\ l \notin DOMAIN OutPoint(res).attrs

\* the label is on the data point with the value and not on the resource
OnPoint(res, l, v) ==
    /\ l \in DOMAIN OutPoint(res).attrs /\ OutPoint(res).attrs[l] = v
    /\ l \notin DOMAIN res.attrs

\* the output shows the labels of the group where the first member says
\* (labels named like a marker attribute are stated apart)
PlacedByFirst(res, first, exempt) ==
    LET labels == LabelsOfPoint(first, cfg.GroupByLabels) IN
    /\ ((DOMAIN res.attrs) \ (DOMAIN cfg.OutputResourceAttributes)) \cup (DOMAIN OutPoint(res).attrs)
          \subseteq DOMAIN labels
    /\ \A l \in (DOMAIN labels) \ exempt :
          IF l \in DOMAIN first.rattrs THEN OnResource(res, l, labels[l])
          ELSE OnPoint(res, l, labels[l])

\* a grouping label named like a marker attribute: the resource holds the
\* marker's value, and the data point holds the label when the first
\* member's resource attributes lack it
MarkerLabelsPlaced(res, first) ==
    LET labels == LabelsOfPoint(first, cfg.GroupByLabels) IN
    \A l \in (DOMAIN labels) \cap (DOMAIN cfg.OutputResourceAttributes) :
        /\ res.attrs[l] = cfg.OutputResourceAttributes[l]
        /\ IF l \in DOMAIN first.rattrs THEN l \notin DOMAIN OutPoint(res).attrs
           ELSE l \in DOMAIN OutPoint(res).attrs /\ OutPoint(res).attrs[l] = labels[l]

SupportedOutput(rule) == rule.OutputMetricType \in {"", "gauge", "sum", "histogram"}

\* C23 as stated: for every group and every label of its key, the label is a
\* resource attribute of the output, with the group-key value, and not on the
\* output data point when the first member's resource attributes contain the
\* label name; otherwise it is on the data point and not on the resource.
PromotionAsStated ==
    (RuleApplied /\ SupportedOutput(LastRule)) =>
        \A key \in KeysOf(RulePoints(pre, LastRule), cfg.GroupByLabels) :
            \E r \in AppendedBy(pre, md) :
                PlacedByFirst(md[r], FirstMember(pre, LastRule, key), {})

\* C23 as amended: the same for every label that is not named like a
\* configured marker attribute; for a label named like a marker attribute the
\* output resource holds the marker's value, and the output data point holds
\* the label exactly when the first member's resource attributes lack it.
Promotion ==
    (RuleApplied /\ SupportedOutput(LastRule)) =>
        \A key \in KeysOf(RulePoints(pre, LastRule), cfg.GroupByLabels) :
            \E r \in AppendedBy(pre, md) :
                LET first == FirstMember(pre, LastRule, key) IN
                /\ PlacedByFirst(md[r], first, DOMAIN cfg.OutputResourceAttributes)
                /\ MarkerLabelsPlaced(md[r], first)

\* a group whose first member holds the label on its data point and whose
\* second member holds it on its resource: the output holds it on the point
PromotionWitness ==
    /\ RuleApplied /\ SupportedOutput(LastRule)
    /\ cfg.GroupByLabels = <<LabelA>>
    /\ \E r \in AppendedBy(pre, md) :
          LET members == MembersOf(pre, LastRule, OutLabels(md[r], cfg.OutputResourceAttributes)) IN
          /\ Len(members) = 2
          /\ LabelA \notin DOMAIN members[1].rattrs /\ LabelA \in DOMAIN members[1].dp.attrs
          /\ LabelA \in DOMAIN members[2].rattrs
          /\ OnPoint(md[r], LabelA, <<"x">>)

(***************************************************************************)
(* Parsing a group key back                                                *)
(***************************************************************************)
\* the labels present for a point with their values, the labels parsed back
\* from its group key, and the labels the output of a group of that one point
\* shows on its resource and its data point
PresentMap(q, labelNames) == [l \in PresentSet(q, labelNames) |-> ValueFor(q, l)]
ParsedBack(q, labelNames) ==
    PutPairs(EmptyMap, ParsedLabels(buildGroupKeyFromPresentAttributes(q.r, q.p, labelNames)))
WrittenLabels(q, labelNames) ==
    LET key == buildGroupKeyFromPresentAttributes(q.r, q.p, labelNames)
        members == <<[Metric |-> Gauge(NameT, <<DoublePoint(1, 1, q.p)>>), ResourceAttrs |-> q.r]>>
    IN  PutAll(extractResourceAttrsFromGroup(key, labelNames, members),
               setDataPointLabelsFromGroupKey(key, labelNames, members))

\* C27: for every data point and every label values, values that hold `|` or
\* `=` included, the group key parsed back gives exactly the (label, value)
\* pairs present for the point, two points with different present labels or
\* values never share a key, and the labels written on the output are the
\* labels of the member.
ParseBack ==
    kOut.done =>
        \A q \in OtherPoints :
            /\ ParsedBack(q, kIn.labels) = PresentMap(q, kIn.labels)
            /\ WrittenLabels(q, kIn.labels) = PresentMap(q, kIn.labels)
            /\ SameKey(q) => SameLabelling(First, q, kIn.labels)

\* the same for the points none of whose present values holds a separator
ParseBackSeparatorFree ==
    kOut.done =>
        \A q \in OtherPoints :
            SeparatorFree(q, kIn.labels) =>
                /\ ParsedBack(q, kIn.labels) = PresentMap(q, kIn.labels)
                /\ WrittenLabels(q, kIn.labels) = PresentMap(q, kIn.labels)
                /\ SameKey(q) => SameLabelling(First, q, kIn.labels)

(***************************************************************************)
(* What the removal pass takes out                                         *)
(***************************************************************************)
\* the metrics of the batch before that are no longer in their scope after
RemovedBy(before, after) ==
    SelectSeq(AllMetrics(before),
              LAMBDA e : \A k \in 1..Len(after[e.res].scopes[e.scope].metrics) :
                             after[e.res].scopes[e.scope].metrics[k] # e.metric)

\* the metric gave at least one value to a group
Contributes(metric) ==
    /\ Len(groupDataPointsByLabels(metric, EmptyMap, cfg.GroupByLabels)) > 0
    /\ Len(extractValuesFromMetric(metric)) > 0

\* C28: every metric a rule's removal pass removes has contributed at least
\* one value to an output of that rule, whatever the shape of the metric,
\* also when it holds no data point or only data points without a value.
NoSilentDrop ==
    RuleApplied =>
        \A n \in 1..Len(RemovedBy(pre, md)) : Contributes(RemovedBy(pre, md)[n].metric)

\* the removal took out a metric that contributed beside metrics that did not
SilentDrop ==
    /\ RuleApplied
    /\ \E n \in 1..Len(RemovedBy(pre, md)) : Contributes(RemovedBy(pre, md)[n].metric)
    /\ \E n \in 1..Len(RemovedBy(pre, md)) : RemovedBy(pre, md)[n].metric.type = "summary"
    /\ \E n \in 1..Len(RemovedBy(pre, md)) : Len(RemovedBy(pre, md)[n].metric.dps) = 0

(***************************************************************************)
(* Specification of a configuration from validation to processing: the     *)
(* configuration is validated, and the processor is created and handed a   *)
(* batch only when validation returned no error.                           *)
(***************************************************************************)
createMetricsProcessor ==
    /\ pc = "idle"
    /\ vres.called /\ vres.err = Nil
    /\ pc' = "loop"
    /\ UNCHANGED <<cfg, md, ruleIdx, ret, pre, input, applied, now, keyVars, accVars, auxVars>>

InitStart ==
    /\ \E rules \in SeqsOf(ValidationRules, 1, MaxRules), batch \in RuleBatches :
          /\ cfg = Config(<<LabelA>>, Map1(MarkerM, <<"1">>), rules)
          /\ md = batch /\ input = batch /\ pre = batch
    /\ applied = <<>> /\ ruleIdx = 1 /\ pc = "idle"
    /\ ret = [md |-> <<>>, err |-> "none"]
    /\ now = 5
    /\ KeyIdle /\ AccIdle /\ AuxIdle

NextStart == ValidateCall \/ createMetricsProcessor \/ ProcessRule \/ Return

SpecStart == InitStart /\ [][NextStart]_vars

\* the runtime fallbacks a rule would take
MatchFallback(rule) ==
    \/ rule.MatchType \notin {"strict", "", "regex"}
    \/ rule.MatchType = "regex" /\ ~RegexCompiles(rule.MetricPattern)
AggregationFallback(rule) == rule.AggregationType \notin KnownAggregationTypes
ShapeFallback(rule) == ~SupportedOutput(rule)

\* the rule with the defaults validation assumes written out
Defaulted(rule) ==
    [rule EXCEPT !.MatchType = IF @ = "" THEN "strict" ELSE @,
                 !.AggregationType = IF @ = "" THEN "sum" ELSE @,
                 !.OutputMetricType = IF @ = "" THEN "gauge" ELSE @]

\* C30: under a configuration Validate accepted no rule takes a runtime
\* fallback: its match type is known and its regex compiles, its aggregation
\* type is known, every synthesized metric is a gauge, sum or histogram with
\* one data point, and the rule gives what the rule with strict, sum and
\* gauge written in place of the empty fields gives.
NoRuntimeFallback ==
    RuleApplied =>
        /\ vres.called /\ vres.err = Nil
        /\ ~MatchFallback(LastRule) /\ ~AggregationFallback(LastRule) /\ ~ShapeFallback(LastRule)
        /\ \A r \in AppendedBy(pre, md) :
              /\ md[r].scopes[1].metrics[1].type \in {"gauge", "sum", "histogram"}
              /\ Len(md[r].scopes[1].metrics[1].dps) = 1
        /\ \E order \in GroupOrders(pre, Defaulted(LastRule), cfg) :
              md = processAggregationRule(pre, Defaulted(LastRule), cfg, now, order).md

\* the rule with every field left empty, accepted and applied: it selected
\* the metrics named like its pattern and produced a gauge with their sum
NoRuntimeFallbackWitness ==
    /\ RuleApplied
    /\ LastRule.MatchType = "" /\ LastRule.AggregationType = "" /\ LastRule.OutputMetricType = ""
    /\ Len(RulePoints(pre, LastRule)) = 2
    /\ \E r \in AppendedBy(pre, md) :
          /\ md[r].scopes[1].metrics[1].type = "gauge"
          /\ OutValue(md[r]) = Rat(4, 1)

(***************************************************************************)
(* Specification of the exporter's HTTP server (prometheusExporter.Start): *)
(* the handlers registered on the mux, with and without the cleanup API.   *)
(* Here cfg is the exporter's configuration, and lastOp.op is the path of  *)
(* the last request.                                                       *)
(***************************************************************************)
CleanupPaths == {"/cleanup", "/cleanup/status", "/cleanup/metrics"}

\* a mux that registers the cleanup endpoints whatever the configuration says
RouteAlways(path, enableCleanupAPI) ==
    IF path = "/metrics" THEN "metrics"
    ELSE IF path = "/cleanup" THEN "cleanup"
    ELSE IF path = "/cleanup/status" THEN "status"
    ELSE IF path = "/cleanup/metrics" THEN "cleanupmetrics"
    ELSE IF path = "/static/style.css" THEN "static"
    ELSE "index"

\* the handler the mux built by Start picks for a path: an exact pattern, the
\* subtree /static/, and the pattern / for every other path
Route(path, enableCleanupAPI) ==
    IF path = "/metrics" THEN "metrics"
    ELSE IF enableCleanupAPI /\ path = "/cleanup" THEN "cleanup"
    ELSE IF enableCleanupAPI /\ path = "/cleanup/status" THEN "status"
    ELSE IF enableCleanupAPI /\ path = "/cleanup/metrics" THEN "cleanupmetrics"
    ELSE IF path = "/static/style.css" THEN "static"
    ELSE "index"

\* the scrape handler: a snapshot of the store for the registry, any method
ScrapeHandler(store, ttlv, clock, req) ==
    [store |-> Collect(store, ttlv, clock).store, status |-> 200, success |-> FALSE, deleted |-> 0]

StatusHandler(store, ttlv, clock, req) ==
    IF req.method # "GET" THEN writeErrorResponse(store, 405)
    ELSE [store |-> store, status |-> 200, success |-> FALSE, deleted |-> 0]

MetricsHandler(store, ttlv, clock, req) ==
    IF req.method # "GET" THEN writeErrorResponse(store, 405)
    ELSE [store |-> Collect(store, ttlv, clock).store, status |-> 200, success |-> FALSE, deleted |-> 0]

\* IndexHandler and StaticHandler: a page for GET, 405 for the other methods
IndexHandler(store, ttlv, clock, req) ==
    IF req.method # "GET" THEN writeErrorResponse(store, 405)
    ELSE [store |-> store, status |-> 200, success |-> FALSE, deleted |-> 0]

Handle(handler, store, ttlv, clock, req) ==
    CASE handler = "metrics"        -> ScrapeHandler(store, ttlv, clock, req)
      [] handler = "cleanup"        -> CleanupHandler(store, ttlv, clock, req)
      [] handler = "status"         -> StatusHandler(store, ttlv, clock, req)
      [] handler = "cleanupmetrics" -> MetricsHandler(store, ttlv, clock, req)
      [] OTHER                      -> IndexHandler(store, ttlv, clock, req)

\* the server serves one request
ServeHTTP(path, req) ==
    LET r == Handle(Route(path, cfg.EnableCleanupAPI), acc, ttl, now, req) IN
    /\ resp.status = 0
    /\ acc' = r.store
    /\ resp' = [req |-> req, status |-> r.status, success |-> r.success,
                deleted |-> r.deleted, before |-> acc, after |-> r.store]
    /\ lastOp' = [NoOp EXCEPT !.op = path]
    /\ UNCHANGED <<ttl, now, keyVars, procVars, san, vres, calls>>

ServerPaths == CleanupPaths \cup {"/metrics", "/", "/ui", "/static/style.css", "/other"}

ServerRequests ==
    {Request("GET", TRUE, "expired", EmptyMap, <<>>),
     Request("POST", TRUE, "expired", EmptyMap, <<>>),
     Request("POST", TRUE, "labels", Map1(JobJ, <<"X">>), <<>>),
     Request("DELETE", FALSE, "", EmptyMap, <<>>)}

InitServer ==
    /\ cfg \in [EnableCleanupAPI : BOOLEAN]
    /\ md = <<>> /\ input = <<>> /\ pre = <<>> /\ applied = <<>>
    /\ ruleIdx = 1 /\ pc = "idle" /\ ret = [md |-> <<>>, err |-> "none"]
    /\ acc = {} /\ lastOp = NoOp /\ now = 0 /\ ttl = 1
    /\ KeyIdle /\ AuxIdle

NextServer ==
    \/ \E batch \in ApiBatches : resp.status = 0 /\ ConsumeMetricsCall(batch)
    \/ \E path \in ServerPaths, req \in ServerRequests : ServeHTTP(path, req)
    \/ Deliver
    \/ resp.status = 0 /\ Tick

SpecServer == InitServer /\ [][NextServer]_vars

Served == resp.status # 0

\* C21 as stated: with enable_cleanup_api false no request, on any path and
\* with any method, deletes an entry of the accumulator.
NoDeletionWhenDisabledAsStated ==
    (Served /\ ~cfg.EnableCleanupAPI) => resp.after = resp.before

\* C21 as amended: with enable_cleanup_api false the three cleanup paths get
\* the answer of the index page (200 for GET, 405 for any other method) and
\* change nothing, and no request on any path deletes an entry that has not
\* expired; only a request to /metrics removes entries, the expired ones the
\* snapshot evicts.
NoDeletionWhenDisabled ==
    (Served /\ ~cfg.EnableCleanupAPI) =>
        /\ lastOp.op \in CleanupPaths =>
              /\ resp.status = (IF resp.req.method = "GET" THEN 200 ELSE 405)
              /\ ~resp.success /\ resp.deleted = 0
        /\ lastOp.op # "/metrics" => resp.after = resp.before
        /\ resp.after \subseteq resp.before
        /\ \A e \in resp.before \ resp.after : Expired(e, ttl, now)

\* a cleanup request for the entries of job X, sent to /cleanup of a server
\* without the cleanup API while such an entry is stored: 405, nothing deleted
NoDeletionWhenDisabledWitness ==
    /\ Served /\ ~cfg.EnableCleanupAPI
    /\ lastOp.op = "/cleanup"
    /\ resp.req = Request("POST", TRUE, "labels", Map1(JobJ, <<"X">>), <<>>)
    /\ CleanByLabels(resp.before, resp.req.Filters).deleted > 0
    /\ resp.status = 405
    /\ resp.after = resp.before

====
